---- MODULE Spec2Model ----
(***************************************************************************)
(* Sigma_Judge: the judging engine.                                        *)
(*                                                                         *)
(*   Evaluator            app/core/evaluator.py                            *)
(*   SubmissionResult     app/models/submission.py                         *)
(*   ParallelEvaluator    app/core/parallel.py (static partition)          *)
(*   WorkerThread / pool  app/core/parallel_evaluator.py (task queue)      *)
(*   EvaluationThread     app/core/evaluation_thread.py                    *)
(*   MainWindow handlers  app/ui/main_window.py                            *)
(***************************************************************************)
EXTENDS Integers, Sequences, FiniteSets, TLC

(***************************************************************************)
(* Bounds of the model.                                                    *)
(***************************************************************************)
\* number of test cases of problem "p1" (problem "p2" has one test case)
NumTests == 2

\* largest num_threads given to ParallelEvaluator(evaluator, num_threads)
RequestedThreads == 2

(***************************************************************************)
(* Data: app/models/submission.py, app/models/problem.py                   *)
(***************************************************************************)
PENDING == "PENDING"
CORRECT == "CORRECT"
WRONG_ANSWER == "WRONG_ANSWER"
TIME_LIMIT_EXCEEDED == "TIME_LIMIT_EXCEEDED"
MEMORY_LIMIT_EXCEEDED == "MEMORY_LIMIT_EXCEEDED"
RUNTIME_ERROR == "RUNTIME_ERROR"
COMPILATION_ERROR == "COMPILATION_ERROR"

SubmissionStatus ==
    {PENDING, CORRECT, WRONG_ANSWER, TIME_LIMIT_EXCEEDED,
     MEMORY_LIMIT_EXCEEDED, RUNTIME_ERROR, COMPILATION_ERROR}

ContestantIds == {"c1", "c2"}
ProblemIds == {"p0", "p1", "p2"}
Keys == ContestantIds \X ProblemIds

\* len(problem.test_cases) once loaded: problem "p0" has no test cases
TestCount(p) == IF p = "p1" THEN NumTests ELSE IF p = "p0" THEN 0 ELSE 1

\* tc.weight of test case i (1-based) of problem p
TestWeight(p, i) == IF p = "p1" THEN (IF i = 1 THEN 2 ELSE 1) ELSE 3

\* weights = [tc.weight for tc in problem.test_cases]
ProblemWeights(p) == [i \in 1..TestCount(p) |-> TestWeight(p, i)]

RECURSIVE SumSeq(_)
SumSeq(s) == IF s = <<>> THEN 0 ELSE Head(s) + SumSeq(Tail(s))

\* [1.0] * n
EqualWeights(n) == [i \in 1..n |-> 1]

\* the priority list scanned by calculate_score
StatusPriority ==
    <<COMPILATION_ERROR, RUNTIME_ERROR, TIME_LIMIT_EXCEEDED,
      MEMORY_LIMIT_EXCEEDED, WRONG_ANSWER>>

\* a priority order with RUNTIME_ERROR and TIME_LIMIT_EXCEEDED exchanged
StatusPrioritySwapped ==
    <<COMPILATION_ERROR, TIME_LIMIT_EXCEEDED, RUNTIME_ERROR,
      MEMORY_LIMIT_EXCEEDED, WRONG_ANSWER>>

\* the for/any/break scan of calculate_score over a priority list, from index k
RECURSIVE ScanPriority(_, _, _)
ScanPriority(prio, tcs, k) ==
    IF k > Len(prio) THEN WRONG_ANSWER
    ELSE IF \E i \in 1..Len(tcs) : tcs[i] = prio[k] THEN prio[k]
    ELSE ScanPriority(prio, tcs, k + 1)

\* the weights calculate_score uses: the given ones, or equal weights when
\* their number differs from the number of test-case results
EffectiveWeights(tcs, weights) ==
    IF Len(weights) # Len(tcs) THEN EqualWeights(Len(tcs)) ELSE weights

\* SubmissionResult.calculate_score: status, score and max_score
CalcScoreWith(prio, tcs, weights) ==
    IF tcs = <<>> THEN [status |-> PENDING, score |-> 0, max_score |-> 0]
    ELSE LET w == EffectiveWeights(tcs, weights)
         IN [status |->
                 IF \A i \in 1..Len(tcs) : tcs[i] = CORRECT THEN CORRECT
                 ELSE ScanPriority(prio, tcs, 1),
             score |->
                 SumSeq([i \in 1..Len(tcs) |->
                            IF tcs[i] = CORRECT THEN w[i] ELSE 0]),
             max_score |-> SumSeq(w)]

CalcScoreSwapped(tcs, weights) == CalcScoreWith(StatusPrioritySwapped, tcs, weights)

CalculateScore(tcs, weights) == CalcScoreWith(StatusPriority, tcs, weights)

(***************************************************************************)
(* State                                                                   *)
(***************************************************************************)
VARIABLES
    \* inputs of a run
    contestants,        \* the list of contestant ids given to the run
    problems,           \* the list of problem ids given to the run
    solutions,          \* per (contestant, problem): "none", "missing", "cpp"
    childOutcomes,      \* the statuses the solutions under test can produce
    unreadable,         \* the test cases whose files cannot be read
    num_threads,        \* ParallelEvaluator.num_threads of app/core/parallel.py
    \* Evaluator
    stop_requested,     \* Evaluator._stop_requested
    current_processes,  \* Evaluator._current_processes: solution path -> child
    procState,          \* child processes: unborn, running, killed, reaped
    cancelKilled,       \* children that received a kill from Evaluator.stop
    \* threads that run evaluate_submission
    role,               \* which loop a thread runs: off, seq, par
    pc,                 \* position of each thread
    todo,               \* tasks a thread's loop still has to iterate
    task,               \* the (contestant, problem) a thread evaluates
    idx,                \* index i of the test-case loop (tests finished)
    tcr,                \* result.test_case_results being built
    child,              \* the Popen object of the running test case
    ret,                \* the SubmissionResult evaluate_submission returned
    \* invocations of Evaluator.stop, by caller: "host", "par"
    stopPc,             \* idle, called, set, iter, returned, raised
    stopIterSize,       \* dict size when the iteration of values() began
    stopVisited,        \* registry keys the iteration has visited
    \* observer
    ticks,              \* test_case_callback events per submission
    finals,             \* result_callback invocations per submission
    lastFinal,          \* the result most recently given to result_callback
    partials,           \* partial results given to partial_result_callback
    caught,             \* the results built by the handler of _run_test_case
    \* ParallelEvaluator of app/core/parallel.py
    par_stop_requested, \* ParallelEvaluator.stop_requested
    active_threads,     \* ParallelEvaluator.active_threads
    result_queue,       \* ParallelEvaluator.result_queue
    thread_status,      \* ParallelEvaluator.thread_status
    decTmp,             \* the value a worker read for active_threads -= 1
    parPc,              \* position of the thread that runs evaluate_all
    completed_tasks,    \* local completed_tasks of evaluate_all
    resultKeys,         \* keys of the local results dict of evaluate_all
    \* history
    lateTests,          \* a test case began after a cancel had returned
    lateTask,           \* per thread: its task began after a cancel had returned
    lateCompiles,       \* a compiler was started for such a task
    compile_result,     \* per submission: what _compile returned, if called
    evaluated,          \* per worker of parallel.py: the tasks whose result it put
    \* SubmissionResult.calculate_score applied to drawn inputs
    scoreIn,            \* self.test_case_results (their statuses)
    scoreWeights,       \* the weights argument
    scoreOut,           \* status, score, max_score after the call
    \* worker pool of app/core/parallel_evaluator.py
    task_queue,         \* ParallelEvaluator.task_queue: tasks and sentinels
    unfinished_tasks,   \* Queue.unfinished_tasks of task_queue
    pool_threads,       \* ParallelEvaluator.threads
    stop_flag,          \* WorkerThread.stop_flag
    status,             \* WorkerThread.status
    \* EvaluationThread of app/core/evaluation_thread.py
    use_threads,        \* EvaluationThread.use_threads
    etPc,               \* position of EvaluationThread.run
    etTodo,             \* (contestant, problem) pairs its loops still visit
    et_stop_requested,  \* EvaluationThread._stop_requested
    hostPc,             \* position of the caller of EvaluationThread.stop
    saPc,               \* position of stop_all, by caller: "host", "et"
    saLeft,             \* threads the second loop of stop_all still visits
    \* MainWindow
    finished,           \* evaluation_finished emissions
    finalHandled,       \* handle_partial_result(result, False) per submission
    finalAfterFinished, \* a final result was emitted after evaluation_finished
    \* one run of a test case: TestRunner / ProcessManager, _run_test_case
    runCfg,             \* the child's behaviour and the code path that runs it
    runPc,              \* position of the run
    runChild,           \* the child process: unborn, running, exited, killed
    runRet,             \* what the wait on the child returned
    runResult,          \* the TestCaseResult returned
    \* compilation over a sequence of submissions
    compilation_cache,  \* Processor._compilation_cache: the paths it holds
    sourceOk,           \* per path: the source compiles
    toolchain,          \* per path: invocations of gcc or g++
    lastCompile,        \* per path: result of its last compilation
    recompiled,         \* paths compiled again after a success
    cpPc,               \* position of the submission being processed
    cpSub,              \* the submission being processed
    cpOut,              \* how it ended
    cpLeft,             \* submissions still to come
    \* one call of TestRunner.run_test_case: gate, staging, output recovery
    stCfg,              \* io_details, io_mode, what goes wrong, a stale file
    stPc,               \* position of the call
    stFiles,            \* the staged files that exist in the solution directory
    stOutText,          \* the content of the output file there
    stRoute,            \* the config _prepare_run_config returned
    stChild,            \* a child process was started
    stStdout,           \* the captured stdout
    stResult,           \* the TestCaseResult returned
    \* one comparison of an actual with an expected output
    cmpActual,          \* the actual output
    cmpExpected,        \* the expected output
    cmpPc,              \* position of the comparison
    cmpRunner,          \* what TestRunner._compare_output returned
    cmpEvaluator,       \* what Evaluator._compare_output returned
    \* one run and its helpers
    gdCfg,              \* the size of the input, the fault, the child
    gdPc,               \* position of the run
    gdSpill,            \* the spill file: none, exists, removed
    temp_in_path,       \* the local variable of _run_test_case
    gdStdin,            \* what the child has as stdin
    gdChild,            \* the child process
    gdSampler,          \* the memory monitor thread
    kill_timer,         \* the watchdog timer
    gdOutcome,          \* how the try block was left, then the result
    gdNow,              \* the clock
    \* a Settings object
    setPc,              \* the object is in use
    global_settings,    \* global_time_limit, global_memory_limit, global_io_mode
    problem_settings,   \* the per-problem overrides
    answer,             \* the last answer of get_problem_settings
    \* one call of FileIODetector.detect_file_io
    detSrc,             \* what the source contains
    detPc,              \* position of the call
    detOut,             \* the result returned
    \* the registry of live children over the test cases of a submission
    rgCfg,              \* per test case: what happens to its run
    rgPc,               \* position of the thread in evaluate_submission
    rgTest,             \* the test case being run
    rgEntry,            \* _current_processes[solution_path]: <<test>> or <<>>
    rgChild,            \* per test case: unborn, running, killed, reaped
    rgStop,             \* position of Evaluator.stop
    rgActed             \* the children stop called kill on when not running

inputVars ==
    <<contestants, problems, solutions, childOutcomes, unreadable, num_threads>>
evalVars == <<stop_requested, current_processes, procState, cancelKilled>>
threadVars == <<role, pc, todo, task, idx, tcr, child, ret>>
stopVars == <<stopPc, stopIterSize, stopVisited>>
obsVars == <<ticks, finals, lastFinal>>
parVars ==
    <<par_stop_requested, active_threads, result_queue, thread_status, decTmp,
      parPc, completed_tasks, resultKeys>>
histVars == <<lateTests, lateTask, lateCompiles, compile_result, evaluated>>
scoreVars == <<scoreIn, scoreWeights, scoreOut>>

queueVars == <<task_queue, unfinished_tasks>>
workerVars == <<pool_threads, stop_flag, status>>
etVars == <<etPc, etTodo, et_stop_requested>>
saVars == <<saPc, saLeft>>
sigVars == <<finished, finalHandled, finalAfterFinished>>
poolVars == <<queueVars, workerVars, use_threads, etVars, hostPc, saVars, sigVars>>

runVars == <<runCfg, runPc, runChild, runRet, runResult>>

compVars ==
    <<compilation_cache, sourceOk, toolchain, lastCompile, recompiled, cpPc,
      cpSub, cpOut, cpLeft>>

\* the state of the units exercised on their own
stageVars ==
    <<stCfg, stPc, stFiles, stOutText, stRoute, stChild, stStdout, stResult>>

cmpVars == <<cmpActual, cmpExpected, cmpPc, cmpRunner, cmpEvaluator>>

guardVars ==
    <<gdCfg, gdPc, gdSpill, temp_in_path, gdStdin, gdChild, gdSampler,
      kill_timer, gdOutcome, gdNow>>

setVars == <<setPc, global_settings, problem_settings, answer>>

\* the units added last
detVars == <<detSrc, detPc, detOut>>

regVars == <<rgCfg, rgPc, rgTest, rgEntry, rgChild, rgStop, rgActed>>

auxVars == <<setVars, detVars, regVars>>

unitVars == <<runVars, compVars, stageVars, cmpVars, guardVars, auxVars>>

\* the state of Evaluator, its threads, observers and app/core/parallel.py
engineVars ==
    <<inputVars, evalVars, threadVars, stopVars, obsVars, parVars, histVars>>

\* the partial-result channel of the observer: Evaluator has no attribute
\* partial_result_callback of its own and no code of it calls the one
\* EvaluationThread assigns; and the record of the results that the exception
\* handler of Evaluator._run_test_case returned
sinkVars == <<partials, caught>>

restVars == <<scoreVars, poolVars, unitVars, sinkVars>>

\* everything but the engine and the units added last
restVars0 ==
    <<scoreVars, poolVars, sinkVars, runVars, compVars, stageVars, cmpVars,
      guardVars>>

vars ==
    <<inputVars, evalVars, threadVars, stopVars, obsVars, parVars, histVars,
      restVars>>

Threads == {"w1", "w2"}
StopCallers == {"host", "par"}
StopAllCallers == {"host", "et"}

NoKey == <<>>
NoPid == <<>>

\* one child process per test case of a submission
Pids == {pid \in Keys \X (1..NumTests) : pid[2] <= TestCount(pid[1][2])}

NoResult ==
    [key |-> NoKey, status |-> "NONE", score |-> 0, max_score |-> 0, tcs |-> <<>>]

\* SubmissionResult(contestant.id, problem.id)
NewResult(k) ==
    [key |-> k, status |-> PENDING, score |-> 0, max_score |-> 0, tcs |-> <<>>]

\* an iteration that visits the problems of a contestant in reverse order
TaskListReversed(cs, ps) ==
    [n \in 1..(Len(cs) * Len(ps)) |->
        <<cs[((n - 1) \div Len(ps)) + 1], ps[Len(ps) - ((n - 1) % Len(ps))]>>]

\* for contestant in contestants: for problem in problems
TaskList(cs, ps) ==
    [n \in 1..(Len(cs) * Len(ps)) |->
        <<cs[((n - 1) \div Len(ps)) + 1], ps[((n - 1) % Len(ps)) + 1]>>]

RunKeys == {TaskList(contestants, problems)[n] :
               n \in 1..(Len(contestants) * Len(problems))}

\* a cancel operation has returned to its caller
CancelReturned == stopPc["host"] = "returned" \/ parPc = "done"

\* a test-case result list for a failed compilation that holds no entry
CompileErrorResultEmpty(k) ==
    [NewResult(k) EXCEPT !.status = COMPILATION_ERROR]

\* lines 109-118: one synthetic COMPILATION_ERROR test-case result, the overall
\* status COMPILATION_ERROR
CompileErrorResult(k) ==
    [NewResult(k) EXCEPT !.status = COMPILATION_ERROR,
                         !.tcs = <<COMPILATION_ERROR>>]

\* a check of the test cases that lets every problem pass
HasTestCasesAlways(p) == TRUE

\* lines 92-97: load_test_cases() if needed; problem.test_cases is not empty
HasTestCases(p) == TestCount(p) > 0

\* lines 77-118 of evaluate_submission: no solution, get_solution_path, the
\* test cases, the compilation
EsStart(t) ==
    /\ pc[t] = "es_start"
    /\ LET k == task[t] IN
         \/ /\ solutions[k] = "none"
            /\ ret' = [ret EXCEPT ![t] = NewResult(k)]
            /\ pc' = [pc EXCEPT ![t] = "es_ret"]
            /\ UNCHANGED <<idx, tcr, lateCompiles, compile_result>>
         \/ /\ solutions[k] = "missing"
            /\ pc' = [pc EXCEPT ![t] = "es_raised"]
            /\ UNCHANGED <<ret, idx, tcr, lateCompiles, compile_result>>
         \/ /\ solutions[k] = "cpp"
            /\ ~HasTestCases(k[2])
            /\ ret' = [ret EXCEPT ![t] = NewResult(k)]
            /\ pc' = [pc EXCEPT ![t] = "es_ret"]
            /\ UNCHANGED <<idx, tcr, lateCompiles, compile_result>>
         \/ /\ solutions[k] = "cpp"
            /\ HasTestCases(k[2])
            /\ ret' = [ret EXCEPT ![t] = CompileErrorResult(k)]
            /\ pc' = [pc EXCEPT ![t] = "es_ret"]
            /\ lateCompiles' = (lateCompiles \/ lateTask[t])
            /\ compile_result' = [compile_result EXCEPT ![k] = "error"]
            /\ UNCHANGED <<idx, tcr>>
         \/ /\ solutions[k] = "cpp"
            /\ HasTestCases(k[2])
            /\ idx' = [idx EXCEPT ![t] = 0]
            /\ tcr' = [tcr EXCEPT ![t] = <<>>]
            /\ pc' = [pc EXCEPT ![t] = "tc_check"]
            /\ lateCompiles' = (lateCompiles \/ lateTask[t])
            /\ compile_result' = [compile_result EXCEPT ![k] = "ok"]
            /\ UNCHANGED ret
    /\ UNCHANGED <<restVars, inputVars, evalVars, role, todo, task, child, stopVars,
                   obsVars, parVars, lateTests, lateTask, evaluated>>

\* line 123: if self._stop_requested: break
TestLoopStopCheck == stop_requested

\* lines 122-126: the head of the test-case loop
TcCheck(t) ==
    /\ pc[t] = "tc_check"
    /\ IF idx[t] = TestCount(task[t][2]) \/ TestLoopStopCheck
       THEN /\ pc' = [pc EXCEPT ![t] = "es_score"]
            /\ UNCHANGED lateTests
       ELSE /\ pc' = [pc EXCEPT ![t] = "tc_spawn"]
            /\ lateTests' = (lateTests \/ CancelReturned)
    /\ UNCHANGED <<restVars, inputVars, evalVars, role, todo, task, idx, tcr, child, ret,
                   stopVars, obsVars, parVars, lateTask, lateCompiles,
                   compile_result, evaluated>>

\* a callback that reports the loop index i instead of i + 1
TickEventZeroBased(k, i) == <<i, TestCount(k[2])>>

\* line 133: self.test_case_callback(contestant.id, problem.id, i + 1, total)
TickEvent(k, i) == <<i + 1, TestCount(k[2])>>

\* a handler that reports the time of the failed attempt
CaughtResultTimed(e) ==
    [status |-> RUNTIME_ERROR, execution_time |-> 1, memory_used |-> 0,
     error_message |-> e]

\* lines 386-396: the result the handler of _run_test_case returns for the
\* exception e
CaughtResult(e) ==
    [status |-> RUNTIME_ERROR, execution_time |-> 0, memory_used |-> 0,
     error_message |-> e]

\* lines 186-255 and 386-396, then 127-133: _run_test_case reads the input and
\* the expected output and starts the child with subprocess.Popen; the
\* OSError of a file that cannot be read is caught by its handler, the
\* result appended and the tick sent
TcSpawn(t) ==
    /\ pc[t] = "tc_spawn"
    /\ IF idx[t] + 1 \in unreadable
       THEN /\ caught' = caught \cup {[key |-> task[t], test |-> idx[t] + 1,
                                       result |-> CaughtResult("OSError")]}
            /\ tcr' = [tcr EXCEPT ![t] = Append(@, CaughtResult("OSError").status)]
            /\ idx' = [idx EXCEPT ![t] = @ + 1]
            /\ ticks' = [ticks EXCEPT
                            ![task[t]] = Append(@, TickEvent(task[t], idx[t]))]
            /\ pc' = [pc EXCEPT ![t] = "tc_check"]
            /\ UNCHANGED <<procState, child>>
       ELSE /\ LET pid == <<task[t], idx[t] + 1>> IN
                 /\ procState' = [procState EXCEPT ![pid] = "running"]
                 /\ child' = [child EXCEPT ![t] = pid]
            /\ pc' = [pc EXCEPT ![t] = "tc_register"]
            /\ UNCHANGED <<caught, tcr, idx, ticks>>
    /\ UNCHANGED <<scoreVars, poolVars, unitVars, partials, inputVars,
                   stop_requested, current_processes, cancelKilled, role, todo,
                   task, ret, stopVars, finals, lastFinal, parVars, histVars>>

\* line 257: self._current_processes[solution_path] = process
TcRegister(t) ==
    /\ pc[t] = "tc_register"
    /\ current_processes' = [current_processes EXCEPT ![task[t]] = child[t]]
    /\ pc' = [pc EXCEPT ![t] = "tc_wait"]
    /\ UNCHANGED <<restVars, inputVars, stop_requested, procState, cancelKilled, role,
                   todo, task, idx, tcr, child, ret, stopVars, obsVars,
                   parVars, histVars>>

\* the statuses a run can be classified as (lines 303-384), given the state
\* of the child when communicate returns or times out: a killed child has a
\* non-zero return code
RunOutcomes(t) ==
    IF procState[child[t]] = "killed"
    THEN {RUNTIME_ERROR} \cup ({MEMORY_LIMIT_EXCEEDED} \cap childOutcomes)
    ELSE childOutcomes

\* lines 288-384 and 127-133: communicate returns (or times out), the registry
\* entry is deleted, the run is classified, the result appended, the tick sent
TcCollect(t) ==
    /\ pc[t] = "tc_wait"
    /\ \E st \in RunOutcomes(t) :
         /\ tcr' = [tcr EXCEPT ![t] = Append(@, st)]
    /\ procState' = [procState EXCEPT ![child[t]] = "reaped"]
    /\ current_processes' = [current_processes EXCEPT ![task[t]] = NoPid]
    /\ child' = [child EXCEPT ![t] = NoPid]
    /\ idx' = [idx EXCEPT ![t] = @ + 1]
    /\ ticks' = [ticks EXCEPT ![task[t]] = Append(@, TickEvent(task[t], idx[t]))]
    /\ pc' = [pc EXCEPT ![t] = "tc_check"]
    /\ UNCHANGED <<restVars, inputVars, stop_requested, cancelKilled, role, todo, task,
                   ret, stopVars, finals, lastFinal, parVars, histVars>>

\* lines 135-143: calculate_score(weights) or PENDING, return result
EsScore(t) ==
    /\ pc[t] = "es_score"
    /\ LET k == task[t]
           sc == CalculateScore(tcr[t], ProblemWeights(k[2]))
       IN ret' = [ret EXCEPT ![t] =
                     IF Len(tcr[t]) > 0
                     THEN [key |-> k, status |-> sc.status, score |-> sc.score,
                           max_score |-> sc.max_score, tcs |-> tcr[t]]
                     ELSE NewResult(k)]
    /\ pc' = [pc EXCEPT ![t] = "es_ret"]
    /\ UNCHANGED <<restVars, inputVars, evalVars, role, todo, task, idx, tcr, child,
                   stopVars, obsVars, parVars, histVars>>

EvaluateSubmission(t) ==
    \/ EsStart(t)
    \/ TcCheck(t)
    \/ TcSpawn(t)
    \/ TcRegister(t)
    \/ TcCollect(t)
    \/ EsScore(t)

(***************************************************************************)
(* Evaluator.stop, invoked by caller c                                     *)
(***************************************************************************)
Registered == {k \in Keys : current_processes[k] # NoPid}

\* line 30: self._stop_requested = True.  The host calls stop at any time;
\* ParallelEvaluator.stop calls it from its own line 142.
StopSet(c) ==
    /\ stopPc[c] = (IF c = "host" THEN "idle" ELSE "called")
    /\ stop_requested' = TRUE
    /\ stopPc' = [stopPc EXCEPT ![c] = "set"]
    /\ UNCHANGED <<restVars, inputVars, current_processes, procState, cancelKilled,
                   threadVars, stopIterSize, stopVisited, obsVars, parVars,
                   histVars>>

\* line 31: the iterator over self._current_processes.values() is created
StopIterBegin(c) ==
    /\ stopPc[c] = "set"
    /\ stopIterSize' = [stopIterSize EXCEPT ![c] = Cardinality(Registered)]
    /\ stopVisited' = [stopVisited EXCEPT ![c] = {}]
    /\ stopPc' = [stopPc EXCEPT ![c] = "iter"]
    /\ UNCHANGED <<restVars, inputVars, evalVars, threadVars, obsVars, parVars, histVars>>

\* lines 31-35: one step of the iteration: RuntimeError when the dict changed
\* size, process.kill() on the next entry, or the end of the loop
StopIterNext(c) ==
    /\ stopPc[c] = "iter"
    /\ IF Cardinality(Registered) # stopIterSize[c]
       THEN /\ stopPc' = [stopPc EXCEPT ![c] = "raised"]
            /\ UNCHANGED <<procState, cancelKilled, stopVisited>>
       ELSE IF Registered \subseteq stopVisited[c]
       THEN /\ stopPc' = [stopPc EXCEPT ![c] = "returned"]
            /\ UNCHANGED <<procState, cancelKilled, stopVisited>>
       ELSE \E k \in Registered \ stopVisited[c] :
              LET pid == current_processes[k] IN
                /\ stopVisited' = [stopVisited EXCEPT ![c] = @ \cup {k}]
                /\ IF procState[pid] = "running"
                   THEN /\ procState' = [procState EXCEPT ![pid] = "killed"]
                        /\ cancelKilled' = cancelKilled \cup {pid}
                   ELSE UNCHANGED <<procState, cancelKilled>>
                /\ UNCHANGED stopPc
    /\ UNCHANGED <<restVars, inputVars, stop_requested, current_processes, threadVars,
                   stopIterSize, obsVars, parVars, histVars>>

EvaluatorStop(c) == StopSet(c) \/ StopIterBegin(c) \/ StopIterNext(c)

(***************************************************************************)
(* Evaluator.evaluate_all, sequential branch (lines 62-75)                 *)
(***************************************************************************)
\* line 66: if self._stop_requested: return results
SeqLoop(t) ==
    /\ role[t] = "seq"
    /\ pc[t] = "loop"
    /\ IF todo[t] = <<>> \/ stop_requested
       THEN /\ pc' = [pc EXCEPT ![t] = "done"]
            /\ UNCHANGED <<todo, task, lateTask>>
       ELSE /\ task' = [task EXCEPT ![t] = Head(todo[t])]
            /\ todo' = [todo EXCEPT ![t] = Tail(@)]
            /\ pc' = [pc EXCEPT ![t] = "es_start"]
            /\ lateTask' = [lateTask EXCEPT ![t] = CancelReturned]
    /\ UNCHANGED <<restVars, inputVars, evalVars, role, idx, tcr, child, ret, stopVars,
                   obsVars, parVars, lateTests, lateCompiles, compile_result,
                   evaluated>>

\* lines 70-73: results[key] = result; result_callback(result)
SeqDeliver(t) ==
    /\ role[t] = "seq"
    /\ pc[t] = "es_ret"
    /\ finals' = [finals EXCEPT ![task[t]] = @ + 1]
    /\ lastFinal' = ret[t]
    /\ resultKeys' = resultKeys \cup {task[t]}
    /\ pc' = [pc EXCEPT ![t] = "loop"]
    /\ UNCHANGED <<restVars, inputVars, evalVars, role, todo, task, idx, tcr, child, ret,
                   stopVars, ticks, par_stop_requested, active_threads,
                   result_queue, thread_status, decTmp, parPc, completed_tasks,
                   histVars>>

\* an exception of evaluate_submission leaves evaluate_all
SeqRaise(t) ==
    /\ role[t] = "seq"
    /\ pc[t] = "es_raised"
    /\ pc' = [pc EXCEPT ![t] = "raised"]
    /\ UNCHANGED <<restVars, inputVars, evalVars, role, todo, task, idx, tcr, child, ret,
                   stopVars, obsVars, parVars, histVars>>

(***************************************************************************)
(* Initial states                                                          *)
(***************************************************************************)
\* the solutions of a run over contestants cs and problems ps: the first
\* contestant has a C++ solution for every problem, another one may lack a
\* solution or have lost its file
SolutionMaps(cs, ps, kinds) ==
    {s \in [Keys -> {"none"} \cup kinds] :
        \A k \in Keys :
            /\ (\E i \in 1..Len(cs), j \in 1..Len(ps) : k = <<cs[i], ps[j]>>)
                   \/ s[k] = "none"
            /\ k[1] = cs[1] /\ (\E j \in 1..Len(ps) : k[2] = ps[j])
                   => s[k] = "cpp"}

AllOutcomes ==
    {CORRECT, WRONG_ANSWER, TIME_LIMIT_EXCEEDED, MEMORY_LIMIT_EXCEEDED,
     RUNTIME_ERROR}

InitCommon ==
    /\ stop_requested = FALSE
    /\ current_processes = [k \in Keys |-> NoPid]
    /\ procState = [pid \in Pids |-> "unborn"]
    /\ cancelKilled = {}
    /\ task = [t \in Threads |-> NoKey]
    /\ idx = [t \in Threads |-> 0]
    /\ tcr = [t \in Threads |-> <<>>]
    /\ child = [t \in Threads |-> NoPid]
    /\ ret = [t \in Threads |-> NoResult]
    /\ stopPc = [c \in StopCallers |-> "idle"]
    /\ stopIterSize = [c \in StopCallers |-> 0]
    /\ stopVisited = [c \in StopCallers |-> {}]
    /\ ticks = [k \in Keys |-> <<>>]
    /\ finals = [k \in Keys |-> 0]
    /\ lastFinal = NoResult
    /\ partials = [k \in Keys |-> <<>>]
    /\ caught = {}
    /\ resultKeys = {}
    /\ lateTests = FALSE
    /\ lateTask = [t \in Threads |-> FALSE]
    /\ lateCompiles = FALSE
    /\ compile_result = [k \in Keys |-> "none"]
    /\ evaluated = [t \in Threads |-> <<>>]

NoScore == [status |-> "NONE", score |-> 0, max_score |-> 0]

InitScoreOff ==
    /\ scoreIn = <<>>
    /\ scoreWeights = <<>>
    /\ scoreOut = NoScore

NoRun == [status |-> "NONE", execution_time |-> 0, error_message |-> ""]

NoRet == [timedOut |-> FALSE, elapsed |-> 0, returncode |-> 0, max_memory |-> 0]

InitRunOff ==
    /\ runCfg = [path |-> "none"]
    /\ runPc = "off"
    /\ runChild = "unborn"
    /\ runRet = NoRet
    /\ runResult = NoRun

InitCompileOff ==
    /\ compilation_cache = {}
    /\ sourceOk = [p \in {} |-> TRUE]
    /\ toolchain = [p \in {} |-> 0]
    /\ lastCompile = [p \in {} |-> "none"]
    /\ recompiled = {}
    /\ cpPc = "off"
    /\ cpSub = [via |-> "none"]
    /\ cpOut = "none"
    /\ cpLeft = 0

InitStageOff ==
    /\ stCfg = [fault |-> "none"]
    /\ stPc = "off"
    /\ stFiles = {}
    /\ stOutText = <<>>
    /\ stRoute = [input_data |-> "None"]
    /\ stChild = FALSE
    /\ stStdout = <<>>
    /\ stResult = [status |-> "NONE"]

InitCompareOff ==
    /\ cmpActual = <<>>
    /\ cmpExpected = <<>>
    /\ cmpPc = "off"
    /\ cmpRunner = [direct |-> FALSE]
    /\ cmpEvaluator = [direct |-> FALSE]

InitGuardOff ==
    /\ gdCfg = [path |-> "none"]
    /\ gdPc = "off"
    /\ gdSpill = "none"
    /\ temp_in_path = "None"
    /\ gdStdin = "none"
    /\ gdChild = "unborn"
    /\ gdSampler = "none"
    /\ kill_timer = "none"
    /\ gdOutcome = [kind |-> "none"]
    /\ gdNow = 0

InitSettingsOff ==
    /\ setPc = "off"
    /\ global_settings = [io_mode |-> "none"]
    /\ problem_settings = <<>>
    /\ answer = [problem |-> "none"]

InitDetectOff ==
    /\ detSrc = [ext |-> "none"]
    /\ detPc = "off"
    /\ detOut = [adaptive |-> FALSE]

InitRegistryOff ==
    /\ rgCfg = <<>>
    /\ rgPc = "off"
    /\ rgTest = 0
    /\ rgEntry = <<>>
    /\ rgChild = <<>>
    /\ rgStop = "idle"
    /\ rgActed = {}

InitAuxOff == InitSettingsOff /\ InitDetectOff /\ InitRegistryOff

InitUnitsOff ==
    /\ InitRunOff
    /\ InitCompileOff
    /\ InitStageOff
    /\ InitCompareOff
    /\ InitGuardOff
    /\ InitAuxOff

InitPoolCommon ==
    /\ task_queue = <<>>
    /\ unfinished_tasks = 0
    /\ pool_threads = <<>>
    /\ stop_flag = [t \in Threads |-> FALSE]
    /\ status = [t \in Threads |-> <<"none">>]
    /\ etTodo = <<>>
    /\ et_stop_requested = FALSE
    /\ hostPc = "idle"
    /\ saPc = [c \in StopAllCallers |-> "idle"]
    /\ saLeft = [c \in StopAllCallers |-> <<>>]
    /\ finished = 0
    /\ finalHandled = [k \in Keys |-> 0]
    /\ finalAfterFinished = FALSE

InitPoolOff ==
    /\ InitPoolCommon
    /\ use_threads = FALSE
    /\ etPc = "off"

InitParOff ==
    /\ par_stop_requested = FALSE
    /\ active_threads = 0
    /\ result_queue = <<>>
    /\ thread_status = [t \in Threads |-> <<"none">>]
    /\ decTmp = [t \in Threads |-> 0]
    /\ parPc = "off"
    /\ completed_tasks = 0

InitSeq ==
    /\ InitCommon
    /\ InitUnitsOff
    /\ InitParOff
    /\ InitPoolOff
    /\ InitScoreOff
    /\ contestants = <<"c1", "c2">>
    /\ problems \in {<<"p1">>, <<"p0">>}
    /\ solutions \in SolutionMaps(contestants, problems, {"missing", "cpp"})
    /\ childOutcomes = AllOutcomes
    /\ unreadable \in {{}, {1}, 1..NumTests}
    /\ num_threads = RequestedThreads
    /\ role = [t \in Threads |-> IF t = "w1" THEN "seq" ELSE "off"]
    /\ pc = [t \in Threads |-> IF t = "w1" THEN "loop" ELSE "off"]
    /\ todo = [t \in Threads |->
                 IF t = "w1" THEN TaskList(contestants, problems) ELSE <<>>]

NextSeq ==
    \/ \E t \in Threads : EvaluateSubmission(t)
    \/ \E t \in Threads : SeqLoop(t)
    \/ \E t \in Threads : SeqDeliver(t)
    \/ \E t \in Threads : SeqRaise(t)
    \/ EvaluatorStop("host")

\* Evaluator.evaluate_all in sequential mode, with a concurrent Evaluator.stop
SpecSeq == InitSeq /\ [][NextSeq]_vars

(***************************************************************************)
(* ParallelEvaluator of app/core/parallel.py                               *)
(***************************************************************************)
ThreadIndex(t) == IF t = "w1" THEN 0 ELSE 1

MinOf(a, b) == IF a < b THEN a ELSE b

\* a distribution that gives every group all the contestants
DistributeAll(cs, n, g) == cs

\* _distribute_contestants: group g of n holds the contestants at the
\* (0-based) indices i with i % n = g, in input order
Distribute(cs, n, g) ==
    LET F[i \in 0..Len(cs)] ==
            IF i = 0 THEN <<>>
            ELSE IF (i - 1) % n = g THEN Append(F[i - 1], cs[i])
            ELSE F[i - 1]
    IN F[Len(cs)]

\* lines 65-84 of evaluate_all: stop_requested = False, the thread count, the
\* groups, the worker threads started
ParStart ==
    /\ parPc = "start"
    /\ par_stop_requested' = FALSE
    /\ LET n == MinOf(num_threads, Len(contestants)) IN
         /\ active_threads' = n
         /\ role' = [t \in Threads |-> IF ThreadIndex(t) < n THEN "par" ELSE "off"]
         /\ pc' = [t \in Threads |-> IF ThreadIndex(t) < n THEN "begin" ELSE "off"]
         /\ todo' = [t \in Threads |->
                       IF ThreadIndex(t) < n
                       THEN TaskList(Distribute(contestants, n, ThreadIndex(t)),
                                     problems)
                       ELSE <<>>]
    /\ thread_status' = [t \in Threads |-> <<"none">>]
    /\ parPc' = "loop"
    /\ UNCHANGED <<restVars, inputVars, evalVars, task, idx, tcr, child, ret,
                   stopVars, obsVars, result_queue, decTmp, completed_tasks,
                   resultKeys, histVars>>

\* line 122: thread_status[thread_id] = "Starting - Assigned ..."
ParWorkerBegin(t) ==
    /\ role[t] = "par"
    /\ pc[t] = "begin"
    /\ thread_status' = [thread_status EXCEPT ![t] = <<"Starting">>]
    /\ pc' = [pc EXCEPT ![t] = "loop"]
    /\ UNCHANGED <<restVars, inputVars, evalVars, role, todo, task, idx, tcr,
                   child, ret, stopVars, obsVars, par_stop_requested,
                   active_threads, result_queue, decTmp, parPc,
                   completed_tasks, resultKeys, histVars>>

\* lines 124-132: the contestant and problem loops with their stop checks,
\* and the status of the task about to be evaluated
ParWorkerLoop(t) ==
    /\ role[t] = "par"
    /\ pc[t] = "loop"
    /\ IF todo[t] = <<>> \/ par_stop_requested
       THEN /\ pc' = [pc EXCEPT ![t] = "finish"]
            /\ UNCHANGED <<todo, task, thread_status, lateTask>>
       ELSE /\ task' = [task EXCEPT ![t] = Head(todo[t])]
            /\ todo' = [todo EXCEPT ![t] = Tail(@)]
            /\ thread_status' =
                 [thread_status EXCEPT ![t] =
                     <<"Evaluating", Head(todo[t])[1], Head(todo[t])[2]>>]
            /\ pc' = [pc EXCEPT ![t] = "es_start"]
            /\ lateTask' = [lateTask EXCEPT ![t] = CancelReturned]
    /\ UNCHANGED <<restVars, inputVars, evalVars, role, idx, tcr, child, ret,
                   stopVars, obsVars, par_stop_requested, active_threads,
                   result_queue, decTmp, parPc, completed_tasks, resultKeys,
                   lateTests, lateCompiles, compile_result, evaluated>>

\* line 134: self.result_queue.put(result)
ParWorkerPut(t) ==
    /\ role[t] = "par"
    /\ pc[t] = "es_ret"
    /\ result_queue' = Append(result_queue, ret[t])
    /\ pc' = [pc EXCEPT ![t] = "loop"]
    /\ evaluated' = [evaluated EXCEPT ![t] = Append(@, task[t])]
    /\ UNCHANGED <<restVars, inputVars, evalVars, role, todo, task, idx, tcr,
                   child, ret, stopVars, obsVars, par_stop_requested,
                   active_threads, thread_status, decTmp, parPc,
                   completed_tasks, resultKeys, lateTests, lateTask,
                   lateCompiles, compile_result>>

\* line 136: thread_status[thread_id] = "Finished"
ParWorkerFinish(t) ==
    /\ role[t] = "par"
    /\ pc[t] = "finish"
    /\ thread_status' = [thread_status EXCEPT ![t] = <<"Finished">>]
    /\ pc' = [pc EXCEPT ![t] = "dec_read"]
    /\ UNCHANGED <<restVars, inputVars, evalVars, role, todo, task, idx, tcr,
                   child, ret, stopVars, obsVars, par_stop_requested,
                   active_threads, result_queue, decTmp, parPc,
                   completed_tasks, resultKeys, histVars>>

\* lines 137-138: with threading.Lock(): self.active_threads -= 1.  The lock
\* is a new object at every use and excludes nobody: the read
ParDecRead(t) ==
    /\ role[t] = "par"
    /\ pc[t] = "dec_read"
    /\ decTmp' = [decTmp EXCEPT ![t] = active_threads]
    /\ pc' = [pc EXCEPT ![t] = "dec_write"]
    /\ UNCHANGED <<restVars, inputVars, evalVars, role, todo, task, idx, tcr,
                   child, ret, stopVars, obsVars, par_stop_requested,
                   active_threads, result_queue, thread_status, parPc,
                   completed_tasks, resultKeys, histVars>>

\* lines 137-138: the write of active_threads -= 1
ParDecWrite(t) ==
    /\ role[t] = "par"
    /\ pc[t] = "dec_write"
    /\ active_threads' = decTmp[t] - 1
    /\ pc' = [pc EXCEPT ![t] = "exit"]
    /\ UNCHANGED <<restVars, inputVars, evalVars, role, todo, task, idx, tcr,
                   child, ret, stopVars, obsVars, par_stop_requested,
                   result_queue, thread_status, decTmp, parPc,
                   completed_tasks, resultKeys, histVars>>

ParWorker(t) ==
    \/ ParWorkerBegin(t)
    \/ ParWorkerLoop(t)
    \/ ParWorkerPut(t)
    \/ ParWorkerFinish(t)
    \/ ParDecRead(t)
    \/ ParDecWrite(t)

TotalTasks == Len(contestants) * Len(problems)

\* line 91: while completed_tasks < total_tasks and not self.stop_requested
ParLoopCondition == completed_tasks < TotalTasks /\ ~par_stop_requested

\* lines 91-101: result_queue.get returns a result: results[key] = result,
\* callback(result), completed_tasks += 1
ParGet ==
    /\ parPc = "loop"
    /\ ParLoopCondition
    /\ result_queue # <<>>
    /\ LET r == Head(result_queue) IN
         /\ resultKeys' = resultKeys \cup {r.key}
         /\ finals' = [finals EXCEPT ![r.key] = @ + 1]
         /\ lastFinal' = r
    /\ result_queue' = Tail(result_queue)
    /\ completed_tasks' = completed_tasks + 1
    /\ UNCHANGED <<restVars, inputVars, evalVars, threadVars, stopVars, ticks,
                   par_stop_requested, active_threads, thread_status, decTmp,
                   parPc, histVars>>

\* lines 93, 102: result_queue.get(timeout=0.1) raises queue.Empty
ParEmpty ==
    /\ parPc = "loop"
    /\ ParLoopCondition
    /\ result_queue = <<>>
    /\ parPc' = "empty"
    /\ UNCHANGED <<restVars, inputVars, evalVars, threadVars, stopVars, obsVars,
                   par_stop_requested, active_threads, result_queue,
                   thread_status, decTmp, completed_tasks, resultKeys,
                   histVars>>

\* lines 103-105: if self.active_threads == 0: break
ParCheckActive ==
    /\ parPc = "empty"
    /\ parPc' = (IF active_threads = 0 THEN "stop" ELSE "loop")
    /\ UNCHANGED <<restVars, inputVars, evalVars, threadVars, stopVars, obsVars,
                   par_stop_requested, active_threads, result_queue,
                   thread_status, decTmp, completed_tasks, resultKeys,
                   histVars>>

\* line 91: the loop condition fails
ParLoopExit ==
    /\ parPc = "loop"
    /\ ~ParLoopCondition
    /\ parPc' = "stop"
    /\ UNCHANGED <<restVars, inputVars, evalVars, threadVars, stopVars, obsVars,
                   par_stop_requested, active_threads, result_queue,
                   thread_status, decTmp, completed_tasks, resultKeys,
                   histVars>>

\* lines 141-143 of stop: self.stop_requested = True; self.evaluator.stop()
ParStopSet ==
    /\ parPc = "stop"
    /\ par_stop_requested' = TRUE
    /\ stopPc' = [stopPc EXCEPT !["par"] = "called"]
    /\ parPc' = "stop_eval"
    /\ UNCHANGED <<restVars, inputVars, evalVars, threadVars, stopIterSize,
                   stopVisited, obsVars, active_threads, result_queue,
                   thread_status, decTmp, completed_tasks, resultKeys,
                   histVars>>

\* lines 145-163 of stop: join(1) on each live thread, which may time out,
\* the queues cleared; evaluate_all returns results (line 111).  No worker
\* changes the registry while this call of Evaluator.stop iterates it: the
\* collecting loop is left only when the workers have run their last test.
ParStopJoinClear ==
    /\ parPc = "stop_eval"
    /\ stopPc["par"] = "returned"
    /\ result_queue' = <<>>
    /\ parPc' = "done"
    /\ UNCHANGED <<restVars, inputVars, evalVars, threadVars, stopVars, obsVars,
                   par_stop_requested, active_threads, thread_status, decTmp,
                   completed_tasks, resultKeys, histVars>>

ParEvaluateAll ==
    \/ ParStart
    \/ ParGet
    \/ ParEmpty
    \/ ParCheckActive
    \/ ParLoopExit
    \/ ParStopSet
    \/ ParStopJoinClear

InitPar ==
    /\ InitCommon
    /\ InitUnitsOff
    /\ InitPoolOff
    /\ InitScoreOff
    /\ \/ contestants = <<"c1">> /\ problems = <<"p2", "p1">>
          /\ num_threads = RequestedThreads
       \/ contestants = <<"c1", "c2">> /\ problems = <<"p2">>
          /\ num_threads \in 1..RequestedThreads
    /\ solutions \in SolutionMaps(contestants, problems, {"cpp"})
    /\ childOutcomes = {CORRECT}
    /\ unreadable = {}
    /\ role = [t \in Threads |-> "off"]
    /\ pc = [t \in Threads |-> "off"]
    /\ todo = [t \in Threads |-> <<>>]
    /\ par_stop_requested = FALSE
    /\ active_threads = 0
    /\ result_queue = <<>>
    /\ thread_status = [t \in Threads |-> <<"none">>]
    /\ decTmp = [t \in Threads |-> 0]
    /\ parPc = "start"
    /\ completed_tasks = 0

NextPar ==
    \/ ParEvaluateAll
    \/ \E t \in Threads : ParWorker(t)
    \/ \E t \in Threads : EvaluateSubmission(t)
    \/ \E c \in StopCallers : EvaluatorStop(c)

\* Evaluator.evaluate_all in parallel mode (ParallelEvaluator.evaluate_all),
\* with a concurrent Evaluator.stop by the host
SpecPar == InitPar /\ [][NextPar]_vars

(***************************************************************************)
(* Worker pool of app/core/parallel_evaluator.py                           *)
(***************************************************************************)
\* the None that stop_all puts on the task queue
Sentinel == <<"None">>

\* thread_count of the pool: one WorkerThread per element of Threads
PoolOrder == <<"w1", "w2">>

\* the worker threads that were started
PoolWorkers == {t \in Threads : role[t] = "pool"}

\* get_thread_status: {i: thread.status for i, thread in enumerate(self.threads)}
GetThreadStatus ==
    [i \in 0..(Len(pool_threads) - 1) |-> status[pool_threads[i + 1]]]

\* line 16: while not self.stop_flag.is_set()
WLoopCheck(t) ==
    /\ role[t] = "pool"
    /\ pc[t] = "w_loop"
    /\ pc' = [pc EXCEPT ![t] = IF stop_flag[t] THEN "w_term" ELSE "w_get"]
    /\ UNCHANGED <<inputVars, evalVars, role, todo, task, idx, tcr, child, ret,
                   stopVars, obsVars, parVars, histVars, scoreVars, unitVars, sinkVars, poolVars>>

\* lines 19-32 and 45-47: task_queue.get(timeout=0.5) returns the sentinel
\* (status "Stopped", task_done, break) or a task (status "Evaluating c/p"), or
\* raises queue.Empty
WGet(t) ==
    /\ role[t] = "pool"
    /\ pc[t] = "w_get"
    /\ IF task_queue = <<>>
       THEN /\ pc' = [pc EXCEPT ![t] = "w_loop"]
            /\ UNCHANGED <<task, queueVars, status>>
       ELSE /\ task_queue' = Tail(task_queue)
            /\ IF Head(task_queue) = Sentinel
               THEN /\ status' = [status EXCEPT ![t] = <<"Stopped">>]
                    /\ unfinished_tasks' = unfinished_tasks - 1
                    /\ pc' = [pc EXCEPT ![t] = "w_term"]
                    /\ UNCHANGED task
               ELSE /\ status' =
                         [status EXCEPT ![t] =
                             <<"Evaluating", Head(task_queue)[1],
                               Head(task_queue)[2]>>]
                    /\ task' = [task EXCEPT ![t] = Head(task_queue)]
                    /\ pc' = [pc EXCEPT ![t] = "es_start"]
                    /\ UNCHANGED unfinished_tasks
    /\ UNCHANGED <<inputVars, evalVars, role, todo, idx, tcr, child, ret,
                   stopVars, obsVars, parVars, histVars, scoreVars, unitVars, sinkVars,
                   pool_threads, stop_flag, use_threads, etVars, hostPc,
                   saVars, sigVars>>

\* EvaluationThread._result_callback, lines 100-103: result_ready.emit(result)
\* and partial_result_ready.emit(result, False)
EmitResult(r) == <<<<"result", r.key>>, <<"partial", r.key>>>>

\* MainWindow (app/ui/main_window.py), the slots of the signals, run by the
\* main thread in the order of emission: handle_result (lines 366-370) forwards
\* to handle_partial_result(result, False); handle_partial_result (lines
\* 349-362) with is_partial False adds the result to the debug panel.  The
\* number of times the slots handle a final result of submission k:
RECURSIVE HandledFinals(_, _)
HandledFinals(sigs, k) ==
    IF sigs = <<>> THEN 0
    ELSE (IF Head(sigs)[1] \in {"result", "partial"} /\ Head(sigs)[2] = k
          THEN 1 ELSE 0) + HandledFinals(Tail(sigs), k)

\* EvaluationThread._result_callback(r), line 96: if result and not
\* self._stop_requested
ResultCallbackPasses == ~et_stop_requested

\* EvaluationThread._result_callback(r): lines 97-103, and the slots
ResultCallback(r) ==
    /\ finals' = [finals EXCEPT ![r.key] = @ + 1]
    /\ lastFinal' = r
    /\ finalHandled' =
         [finalHandled EXCEPT ![r.key] = @ + HandledFinals(EmitResult(r), r.key)]
    /\ finalAfterFinished' = (finalAfterFinished \/ finished > 0)

\* lines 36-38, and line 96 of evaluation_thread.py: func returned; if
\* callback and not self.stop_flag.is_set(): callback(result), whose first
\* line reads the flag of the evaluation thread
WCallback(t) ==
    /\ role[t] = "pool"
    /\ pc[t] = "es_ret"
    /\ pc' = [pc EXCEPT ![t] = IF ~stop_flag[t] /\ ResultCallbackPasses
                               THEN "w_emit" ELSE "w_done"]
    /\ UNCHANGED <<inputVars, evalVars, role, todo, task, idx, tcr, child, ret,
                   stopVars, obsVars, parVars, histVars, scoreVars, unitVars, sinkVars, queueVars,
                   workerVars, use_threads, etVars, hostPc, saVars, sigVars>>

\* lines 97-103 of evaluation_thread.py, run by the worker: the emissions
WEmit(t) ==
    /\ role[t] = "pool"
    /\ pc[t] = "w_emit"
    /\ ResultCallback(ret[t])
    /\ pc' = [pc EXCEPT ![t] = "w_done"]
    /\ UNCHANGED <<inputVars, evalVars, role, todo, task, idx, tcr, child, ret,
                   stopVars, ticks, parVars, histVars, scoreVars, unitVars, sinkVars, queueVars,
                   workerVars, use_threads, etVars, hostPc, saVars, finished>>

\* lines 39-41: func raised: status "Error: ..."
WError(t) ==
    /\ role[t] = "pool"
    /\ pc[t] = "es_raised"
    /\ status' = [status EXCEPT ![t] = <<"Error">>]
    /\ pc' = [pc EXCEPT ![t] = "w_done"]
    /\ UNCHANGED <<inputVars, evalVars, role, todo, task, idx, tcr, child, ret,
                   stopVars, obsVars, parVars, histVars, scoreVars, unitVars, sinkVars, queueVars,
                   pool_threads, stop_flag, use_threads, etVars, hostPc,
                   saVars, sigVars>>

\* lines 43-44: status "Idle"; task_queue.task_done()
WTaskDone(t) ==
    /\ role[t] = "pool"
    /\ pc[t] = "w_done"
    /\ status' = [status EXCEPT ![t] = <<"Idle">>]
    /\ unfinished_tasks' = unfinished_tasks - 1
    /\ pc' = [pc EXCEPT ![t] = "w_loop"]
    /\ UNCHANGED <<inputVars, evalVars, role, todo, task, idx, tcr, child, ret,
                   stopVars, obsVars, parVars, histVars, scoreVars, unitVars, sinkVars, task_queue,
                   pool_threads, stop_flag, use_threads, etVars, hostPc,
                   saVars, sigVars>>

\* line 49: status "Terminated"; the thread ends
WTerminate(t) ==
    /\ role[t] = "pool"
    /\ pc[t] = "w_term"
    /\ status' = [status EXCEPT ![t] = <<"Terminated">>]
    /\ pc' = [pc EXCEPT ![t] = "exit"]
    /\ UNCHANGED <<inputVars, evalVars, role, todo, task, idx, tcr, child, ret,
                   stopVars, obsVars, parVars, histVars, scoreVars, unitVars, sinkVars, queueVars,
                   pool_threads, stop_flag, use_threads, etVars, hostPc,
                   saVars, sigVars>>

WorkerThreadRun(t) ==
    \/ WLoopCheck(t)
    \/ WGet(t)
    \/ WCallback(t)
    \/ WEmit(t)
    \/ WError(t)
    \/ WTaskDone(t)
    \/ WTerminate(t)

\* stop_all, lines 90-95: one round of get_nowait and task_done, or queue.Empty
SaDrain(c) ==
    /\ saPc[c] = "drain"
    /\ IF task_queue = <<>>
       THEN /\ saPc' = [saPc EXCEPT ![c] = "sentinels"]
            /\ UNCHANGED queueVars
       ELSE /\ task_queue' = Tail(task_queue)
            /\ unfinished_tasks' = unfinished_tasks - 1
            /\ UNCHANGED saPc
    /\ UNCHANGED <<inputVars, evalVars, threadVars, stopVars, obsVars, parVars,
                   histVars, scoreVars, unitVars, sinkVars, workerVars, use_threads, etVars,
                   hostPc, saLeft, sigVars>>

\* stop_all, lines 98-102: one None put per thread of self.threads, and the
\* loop over self.threads begun
SaSentinels(c) ==
    /\ saPc[c] = "sentinels"
    /\ task_queue' =
         task_queue \o [i \in 1..Len(pool_threads) |-> Sentinel]
    /\ unfinished_tasks' = unfinished_tasks + Len(pool_threads)
    /\ saLeft' = [saLeft EXCEPT ![c] = pool_threads]
    /\ saPc' = [saPc EXCEPT ![c] = "flags"]
    /\ UNCHANGED <<inputVars, evalVars, threadVars, stopVars, obsVars, parVars,
                   histVars, scoreVars, unitVars, sinkVars, workerVars, use_threads, etVars,
                   hostPc, sigVars>>

\* stop_all, lines 102-103: thread.stop() sets the thread's stop_flag
SaFlag(c) ==
    /\ saPc[c] = "flags"
    /\ IF saLeft[c] = <<>>
       THEN /\ saPc' = [saPc EXCEPT ![c] = "clear"]
            /\ UNCHANGED <<stop_flag, saLeft>>
       ELSE /\ stop_flag' = [stop_flag EXCEPT ![Head(saLeft[c])] = TRUE]
            /\ saLeft' = [saLeft EXCEPT ![c] = Tail(@)]
            /\ UNCHANGED saPc
    /\ UNCHANGED <<inputVars, evalVars, threadVars, stopVars, obsVars, parVars,
                   histVars, scoreVars, unitVars, sinkVars, queueVars, pool_threads, status,
                   use_threads, etVars, hostPc, sigVars>>

\* stop_all, line 106: self.threads = []
SaClear(c) ==
    /\ saPc[c] = "clear"
    /\ pool_threads' = <<>>
    /\ saPc' = [saPc EXCEPT ![c] = "returned"]
    /\ UNCHANGED <<inputVars, evalVars, threadVars, stopVars, obsVars, parVars,
                   histVars, scoreVars, unitVars, sinkVars, queueVars, stop_flag, status,
                   use_threads, etVars, hostPc, saLeft, sigVars>>

StopAll(c) ==
    \/ SaDrain(c)
    \/ SaSentinels(c)
    \/ SaFlag(c)
    \/ SaClear(c)

(***************************************************************************)
(* EvaluationThread of app/core/evaluation_thread.py.  The methods of      *)
(* Evaluator it calls that app/core/evaluator.py does not define follow    *)
(* the worker-pool operations of the specification: setup_parallel is      *)
(* start(N), schedule_evaluation is submit(task, callback),                *)
(* wait_for_evaluations is await_quiescence, stop_evaluations is           *)
(* cancel_all, cleanup stops the pool.                                     *)
(***************************************************************************)
\* the thread that runs EvaluationThread.run evaluates with this identity
EtThread == "w1"

\* Evaluator.setup_parallel(thread_count): the pool is created and
\* start_threads (parallel_evaluator.py lines 62-67) starts its workers
SetupParallel ==
    /\ pool_threads' = PoolOrder
    /\ role' = [t \in Threads |-> "pool"]
    /\ pc' = [t \in Threads |-> "w_loop"]
    /\ status' = [t \in Threads |-> <<"Idle">>]

\* Evaluator.schedule_evaluation(contestant, problem, callback): add_task
\* (parallel_evaluator.py lines 69-81) puts the task on the queue
ScheduleEvaluation(k) ==
    /\ task_queue' = Append(task_queue, k)
    /\ unfinished_tasks' = unfinished_tasks + 1

\* Evaluator.wait_for_evaluations(): wait_completion (parallel_evaluator.py
\* lines 83-85), task_queue.join(), returns when no item is unfinished
WaitForEvaluations == unfinished_tasks = 0

\* lines 43-49: the flags reset; the pool set up in parallel mode
EtStart ==
    /\ etPc = "start"
    /\ et_stop_requested' = FALSE
    /\ etTodo' = TaskList(contestants, problems)
    /\ IF use_threads
       THEN /\ SetupParallel
            /\ etPc' = "schedule"
       ELSE /\ role' = [role EXCEPT ![EtThread] = "et"]
            /\ etPc' = "seq_loop"
            /\ UNCHANGED <<pool_threads, pc, status>>
    /\ UNCHANGED <<inputVars, evalVars, todo, task, idx, tcr, child, ret,
                   stopVars, obsVars, parVars, histVars, scoreVars, unitVars, sinkVars, queueVars,
                   stop_flag, use_threads, hostPc, saVars, sigVars>>

\* the pair at the head of etTodo is the first problem of its contestant: the
\* place of the checks of lines 53 and 71
AtContestantStart == Head(etTodo)[2] = problems[1]

\* lines 52-64: the scheduling loops
EtSchedule ==
    /\ etPc = "schedule"
    /\ IF etTodo = <<>> \/ (AtContestantStart /\ et_stop_requested)
       THEN /\ etPc' = "wait"
            /\ UNCHANGED <<etTodo, queueVars>>
       ELSE /\ etTodo' = Tail(etTodo)
            /\ IF solutions[Head(etTodo)] # "none"
               THEN ScheduleEvaluation(Head(etTodo))
               ELSE UNCHANGED queueVars
            /\ UNCHANGED etPc
    /\ UNCHANGED <<inputVars, evalVars, threadVars, stopVars, obsVars, parVars,
                   histVars, scoreVars, unitVars, sinkVars, workerVars, use_threads,
                   et_stop_requested, hostPc, saVars, sigVars>>

\* line 67: self.evaluator.wait_for_evaluations() returns
EtWait ==
    /\ etPc = "wait"
    /\ WaitForEvaluations
    /\ etPc' = "cleanup"
    /\ UNCHANGED <<inputVars, evalVars, threadVars, stopVars, obsVars, parVars,
                   histVars, scoreVars, unitVars, sinkVars, queueVars, workerVars, use_threads,
                   etTodo, et_stop_requested, hostPc, saVars, sigVars>>

\* lines 70-80: the sequential loops up to the call of evaluate_submission
EtSeqLoop ==
    /\ etPc = "seq_loop"
    /\ IF etTodo = <<>> \/ (AtContestantStart /\ et_stop_requested)
       THEN /\ etPc' = "cleanup"
            /\ UNCHANGED <<etTodo, task, pc>>
       ELSE /\ etTodo' = Tail(etTodo)
            /\ IF solutions[Head(etTodo)] # "none"
               THEN /\ task' = [task EXCEPT ![EtThread] = Head(etTodo)]
                    /\ pc' = [pc EXCEPT ![EtThread] = "es_start"]
                    /\ etPc' = "seq_eval"
               ELSE /\ etPc' = "seq_after"
                    /\ UNCHANGED <<task, pc>>
    /\ UNCHANGED <<inputVars, evalVars, role, todo, idx, tcr, child, ret,
                   stopVars, obsVars, parVars, histVars, scoreVars, unitVars, sinkVars, queueVars,
                   workerVars, use_threads, et_stop_requested, hostPc, saVars,
                   sigVars>>

\* lines 80-82 and 96: evaluate_submission returned:
\* self._result_callback(result), whose first line reads the flag
EtSeqCallback ==
    /\ etPc = "seq_eval"
    /\ pc[EtThread] = "es_ret"
    /\ pc' = [pc EXCEPT ![EtThread] = "off"]
    /\ etPc' = IF ResultCallbackPasses THEN "seq_emit" ELSE "seq_after"
    /\ UNCHANGED <<inputVars, evalVars, role, todo, task, idx, tcr, child, ret,
                   stopVars, obsVars, parVars, histVars, scoreVars, unitVars, sinkVars, queueVars,
                   workerVars, use_threads, etTodo, et_stop_requested, hostPc,
                   saVars, sigVars>>

\* lines 97-103, run by the evaluation thread: the emissions
EtSeqEmit ==
    /\ etPc = "seq_emit"
    /\ ResultCallback(ret[EtThread])
    /\ etPc' = "seq_after"
    /\ UNCHANGED <<inputVars, evalVars, threadVars, stopVars, ticks, parVars,
                   histVars, scoreVars, unitVars, sinkVars, queueVars,
                   workerVars, use_threads, etTodo, et_stop_requested, hostPc,
                   saVars, finished>>

\* lines 84-85: if self._stop_requested: break, which ends the loop over the
\* problems; the check of line 71 then ends the loop over the contestants
EtSeqAfter ==
    /\ etPc = "seq_after"
    /\ etPc' = (IF et_stop_requested THEN "cleanup" ELSE "seq_loop")
    /\ UNCHANGED <<inputVars, evalVars, threadVars, stopVars, obsVars, parVars,
                   histVars, scoreVars, unitVars, sinkVars, queueVars, workerVars, use_threads,
                   etTodo, et_stop_requested, hostPc, saVars, sigVars>>

\* lines 86-88: an exception of evaluate_submission is caught by run
EtSeqRaise ==
    /\ etPc = "seq_eval"
    /\ pc[EtThread] = "es_raised"
    /\ pc' = [pc EXCEPT ![EtThread] = "off"]
    /\ etPc' = "cleanup"
    /\ UNCHANGED <<inputVars, evalVars, role, todo, task, idx, tcr, child, ret,
                   stopVars, obsVars, parVars, histVars, scoreVars, unitVars, sinkVars, queueVars,
                   workerVars, use_threads, etTodo, et_stop_requested, hostPc,
                   saVars, sigVars>>

\* line 91: self.evaluator.cleanup(): the pool, when there is one, is stopped
\* with stop_all
EtCleanup ==
    /\ etPc = "cleanup"
    /\ IF use_threads
       THEN /\ saPc' = [saPc EXCEPT !["et"] = "drain"]
            /\ etPc' = "cleanup_wait"
       ELSE /\ etPc' = "emit"
            /\ UNCHANGED saPc
    /\ UNCHANGED <<inputVars, evalVars, threadVars, stopVars, obsVars, parVars,
                   histVars, scoreVars, unitVars, sinkVars, queueVars, workerVars, use_threads,
                   etTodo, et_stop_requested, hostPc, saLeft, sigVars>>

\* line 92: self.evaluation_finished.emit()
EtEmitFinished ==
    /\ \/ etPc = "emit"
       \/ etPc = "cleanup_wait" /\ saPc["et"] = "returned"
    /\ finished' = finished + 1
    /\ etPc' = "done"
    /\ UNCHANGED <<inputVars, evalVars, threadVars, stopVars, obsVars, parVars,
                   histVars, scoreVars, unitVars, sinkVars, queueVars, workerVars, use_threads,
                   etTodo, et_stop_requested, hostPc, saVars, finalHandled,
                   finalAfterFinished>>

EvaluationThreadRun ==
    \/ EtStart
    \/ EtSchedule
    \/ EtWait
    \/ EtSeqLoop
    \/ EtSeqCallback
    \/ EtSeqEmit
    \/ EtSeqAfter
    \/ EtSeqRaise
    \/ EtCleanup
    \/ EtEmitFinished

\* EvaluationThread.stop, line 107, called by MainWindow.stop_evaluation while
\* the thread is running: self._stop_requested = True
HostStopFlag ==
    /\ hostPc = "idle"
    /\ etPc # "done"
    /\ et_stop_requested' = TRUE
    /\ hostPc' = "evalstop"
    /\ UNCHANGED <<inputVars, evalVars, threadVars, stopVars, obsVars, parVars,
                   histVars, scoreVars, unitVars, sinkVars, queueVars, workerVars, use_threads,
                   etPc, etTodo, saVars, sigVars>>

\* line 108: Evaluator.stop_evaluations() first stops the evaluator
HostEvaluatorStop == hostPc = "evalstop" /\ EvaluatorStop("host")

\* line 108: Evaluator.stop_evaluations() then stops the pool with stop_all
HostStopAll ==
    /\ hostPc = "evalstop"
    /\ stopPc["host"] = "returned"
    /\ IF use_threads
       THEN /\ saPc' = [saPc EXCEPT !["host"] = "drain"]
            /\ hostPc' = "stopall"
       ELSE /\ hostPc' = "returned"
            /\ UNCHANGED saPc
    /\ UNCHANGED <<inputVars, evalVars, threadVars, stopVars, obsVars, parVars,
                   histVars, scoreVars, unitVars, sinkVars, queueVars, workerVars, use_threads,
                   etVars, saLeft, sigVars>>

\* the RuntimeError of Evaluator.stop leaves stop_evaluations and stop
HostStopRaised ==
    /\ hostPc = "evalstop"
    /\ stopPc["host"] = "raised"
    /\ hostPc' = "raised"
    /\ UNCHANGED <<inputVars, evalVars, threadVars, stopVars, obsVars, parVars,
                   histVars, scoreVars, unitVars, sinkVars, queueVars, workerVars, use_threads,
                   etVars, saVars, sigVars>>

\* line 109: self.wait(1000) returns
HostStopReturn ==
    /\ hostPc = "stopall"
    /\ saPc["host"] = "returned"
    /\ hostPc' = "returned"
    /\ UNCHANGED <<inputVars, evalVars, threadVars, stopVars, obsVars, parVars,
                   histVars, scoreVars, unitVars, sinkVars, queueVars, workerVars, use_threads,
                   etVars, saVars, sigVars>>

EvaluationThreadStop ==
    \/ HostStopFlag
    \/ HostEvaluatorStop
    \/ HostStopAll
    \/ HostStopRaised
    \/ HostStopReturn

InitPool ==
    /\ InitCommon
    /\ InitUnitsOff
    /\ InitParOff
    /\ InitScoreOff
    /\ InitPoolCommon
    /\ etPc = "start"
    /\ problems = <<"p2">>
    /\ \/ /\ use_threads = FALSE
          /\ contestants = <<"c1", "c2">>
          /\ solutions \in SolutionMaps(contestants, problems, {"missing", "cpp"})
       \/ /\ use_threads = TRUE
          /\ contestants = <<"c1">>
          /\ \E kind \in {"missing", "cpp"} :
               solutions = [k \in Keys |-> IF k = <<"c1", "p2">> THEN kind ELSE "none"]
    /\ childOutcomes = {CORRECT}
    /\ unreadable = {}
    /\ num_threads = RequestedThreads
    /\ role = [t \in Threads |-> "off"]
    /\ pc = [t \in Threads |-> "off"]
    /\ todo = [t \in Threads |-> <<>>]

NextPool ==
    \/ EvaluationThreadRun
    \/ \E t \in Threads : WorkerThreadRun(t)
    \/ \E t \in Threads : EvaluateSubmission(t)
    \/ \E c \in StopAllCallers : StopAll(c)
    \/ EvaluationThreadStop

\* EvaluationThread.run over the worker pool or sequentially, with a
\* concurrent EvaluationThread.stop
SpecPool == InitPool /\ [][NextPool]_vars

(***************************************************************************)
(* SubmissionResult.calculate_score on drawn inputs                        *)
(***************************************************************************)
\* the longest test_case_results list drawn
MaxResults == 3

\* the largest weight drawn
MaxWeight == 2

SeqsUpTo(S, n) == UNION {[1..m -> S] : m \in 0..n}

InitEvalOff ==
    /\ InitCommon
    /\ InitParOff
    /\ InitPoolOff
    /\ contestants = <<>>
    /\ problems = <<>>
    /\ solutions = [k \in Keys |-> "none"]
    /\ childOutcomes = {}
    /\ unreadable = {}
    /\ num_threads = RequestedThreads
    /\ role = [t \in Threads |-> "off"]
    /\ pc = [t \in Threads |-> "off"]
    /\ todo = [t \in Threads |-> <<>>]

InitScore ==
    /\ InitEvalOff
    /\ InitUnitsOff
    /\ scoreIn \in SeqsUpTo(SubmissionStatus, MaxResults)
    /\ scoreWeights \in SeqsUpTo(1..MaxWeight, MaxResults)
    /\ scoreOut = NoScore

\* result.calculate_score(weights)
ApplyCalculateScore ==
    /\ scoreOut = NoScore
    /\ scoreOut' = CalculateScore(scoreIn, scoreWeights)
    /\ UNCHANGED <<inputVars, evalVars, threadVars, stopVars, obsVars, parVars,
                   histVars, poolVars, unitVars, sinkVars, scoreIn, scoreWeights>>

NextScore == ApplyCalculateScore

SpecScore == InitScore /\ [][NextScore]_vars

(***************************************************************************)
(* One run of a test case: TestRunner.run_test_case over                   *)
(* ProcessManager.run_with_memory_monitoring (app/core/modules), and       *)
(* Evaluator._run_test_case.  Times and memory are whole units.            *)
(***************************************************************************)
\* settings.time_limit
TimeLimit == 2

\* settings.memory_limit
MemoryLimit == 1

\* the child's behaviours: when it exits if nobody kills it, its exit code
\* (-1: ended by a signal numbered 1), the peak memory the monitor sampled,
\* whether its output equals the expected one, and the time the parent spends
\* between the child's exit and its own reading of the clock
RunConfigs ==
    [path : {"runner", "evaluator"},
     exitsAt : 0..(TimeLimit + 1),
     exitCode : {-1, 0, 1},
     peak : 0..(MemoryLimit + 1),
     outputOk : BOOLEAN,
     overhead : {0, 1}]

\* process_manager.py lines 42-49, evaluator.py lines 240-255: Popen
RunPopen ==
    /\ runPc = "start"
    /\ runChild' = "running"
    /\ runPc' = "wait"
    /\ UNCHANGED <<inputVars, evalVars, threadVars, stopVars, obsVars, parVars,
                   histVars, scoreVars, poolVars, sinkVars, compVars, stageVars,
                   cmpVars, guardVars, auxVars,
                   runCfg, runRet, runResult>>

\* process_manager.py lines 76-84, evaluator.py lines 291-301 and 336:
\* communicate returns within the time limit; the elapsed time is read
RunCommunicate ==
    /\ runPc = "wait"
    /\ runCfg.exitsAt < TimeLimit
    /\ runChild' = "exited"
    /\ runRet' = [timedOut |-> FALSE,
                  elapsed |-> runCfg.exitsAt + runCfg.overhead,
                  returncode |-> runCfg.exitCode,
                  max_memory |-> runCfg.peak]
    /\ runPc' = "returned"
    /\ UNCHANGED <<inputVars, evalVars, threadVars, stopVars, obsVars, parVars,
                   histVars, scoreVars, poolVars, sinkVars, compVars, stageVars,
                   cmpVars, guardVars, auxVars,
                   runCfg, runResult>>

\* process_manager.py line 86, evaluator.py line 303: communicate raises
\* subprocess.TimeoutExpired, the child still running
RunTimeoutExpired ==
    /\ runPc = "wait"
    /\ runCfg.exitsAt >= TimeLimit
    /\ runPc' = "expired"
    /\ UNCHANGED <<inputVars, evalVars, threadVars, stopVars, obsVars, parVars,
                   histVars, scoreVars, poolVars, sinkVars, compVars, stageVars,
                   cmpVars, guardVars, auxVars,
                   runCfg, runChild, runRet,
                   runResult>>

\* a timeout that hands back the return code of the killed child
TimeoutReturnKilledCode(peak) ==
    [timedOut |-> TRUE, elapsed |-> TimeLimit, returncode |-> -9,
     max_memory |-> peak]

\* process_manager.py line 92: return stdout, stderr, timeout, max_memory, -1
TimeoutReturn(peak) ==
    [timedOut |-> TRUE, elapsed |-> TimeLimit, returncode |-> -1,
     max_memory |-> peak]

\* process_manager.py lines 87-92, evaluator.py lines 304-309: process.kill(),
\* the residual output drained.  _run_test_case keeps the child's own return
\* code, which it does not read on this path
RunKill ==
    /\ runPc = "expired"
    /\ runChild' = "killed"
    /\ runRet' = IF runCfg.path = "runner"
                 THEN TimeoutReturn(runCfg.peak)
                 ELSE [timedOut |-> TRUE, elapsed |-> TimeLimit,
                       returncode |-> -9, max_memory |-> runCfg.peak]
    /\ runPc' = "returned"
    /\ UNCHANGED <<inputVars, evalVars, threadVars, stopVars, obsVars, parVars,
                   histVars, scoreVars, poolVars, sinkVars, compVars, stageVars,
                   cmpVars, guardVars, auxVars,
                   runCfg, runResult>>

\* the checks after the timeout check, with the exit code tested first
ClassifyExitFirst(r, ok) ==
    IF r.returncode # 0
    THEN [status |-> RUNTIME_ERROR, execution_time |-> r.elapsed,
          error_message |-> "stderr"]
    ELSE IF r.max_memory > MemoryLimit
    THEN [status |-> MEMORY_LIMIT_EXCEEDED, execution_time |-> r.elapsed,
          error_message |-> "Memory limit exceeded"]
    ELSE [status |-> IF ok THEN CORRECT ELSE WRONG_ANSWER,
          execution_time |-> r.elapsed, error_message |-> ""]

\* test_runner.py lines 95-137, evaluator.py lines 341-384: memory limit, then
\* exit code, then the comparison of the output
ClassifyExited(r, ok) ==
    IF r.max_memory > MemoryLimit
    THEN [status |-> MEMORY_LIMIT_EXCEEDED, execution_time |-> r.elapsed,
          error_message |-> "Memory limit exceeded"]
    ELSE IF r.returncode # 0
    THEN [status |-> RUNTIME_ERROR, execution_time |-> r.elapsed,
          error_message |-> "stderr"]
    ELSE [status |-> IF ok THEN CORRECT ELSE WRONG_ANSWER,
          execution_time |-> r.elapsed, error_message |-> ""]

\* the TestCaseResult of a timeout: test_runner.py lines 80-88, evaluator.py
\* lines 314-322
TimeLimitResult ==
    [status |-> TIME_LIMIT_EXCEEDED, execution_time |-> TimeLimit,
     error_message |-> "Time limit exceeded"]

\* test_runner.py lines 78-137
RunnerClassify(r, ok) ==
    IF r.returncode = -1 /\ r.elapsed >= TimeLimit
    THEN TimeLimitResult
    ELSE ClassifyExited(r, ok)

\* evaluator.py lines 303-384: the except branch of TimeoutExpired returns the
\* timeout result, the code after the try block classifies an exited child
EvaluatorClassify(r, ok) ==
    IF r.timedOut THEN TimeLimitResult ELSE ClassifyExited(r, ok)

\* the TestCaseResult is built and returned
RunClassify ==
    /\ runPc = "returned"
    /\ runResult' = IF runCfg.path = "runner"
                    THEN RunnerClassify(runRet, runCfg.outputOk)
                    ELSE EvaluatorClassify(runRet, runCfg.outputOk)
    /\ runPc' = "done"
    /\ UNCHANGED <<inputVars, evalVars, threadVars, stopVars, obsVars, parVars,
                   histVars, scoreVars, poolVars, sinkVars, compVars, stageVars,
                   cmpVars, guardVars, auxVars,
                   runCfg, runChild, runRet>>

InitRun ==
    /\ InitEvalOff
    /\ InitScoreOff
    /\ InitCompileOff
    /\ InitStageOff
    /\ InitCompareOff
    /\ InitGuardOff
    /\ InitAuxOff
    /\ runCfg \in RunConfigs
    /\ runPc = "start"
    /\ runChild = "unborn"
    /\ runRet = NoRet
    /\ runResult = NoRun

NextRun ==
    \/ RunPopen
    \/ RunCommunicate
    \/ RunTimeoutExpired
    \/ RunKill
    \/ RunClassify

\* one test case run by TestRunner.run_test_case or Evaluator._run_test_case
SpecRun == InitRun /\ [][NextRun]_vars

(***************************************************************************)
(* Compilation over a sequence of submissions: Processor.process_submission *)
(* with its cache of successful compilations (app/core/modules), and the   *)
(* compilation step of Evaluator.evaluate_submission.                      *)
(***************************************************************************)
\* submissions processed in one run of this specification
MaxSubmissions == 3

\* solution paths
Paths == {"a.cpp", "b.c", "s.py"}

\* solution_path.endswith(('.c', '.cpp'))
IsCSource(path) == path \in {"a.cpp", "b.c"}

NoSub == [via |-> "none", path |-> "none", before |-> 0, afterFailure |-> FALSE]

\* a submission of a solution path arrives, for Processor.process_submission
\* or for Evaluator.evaluate_submission
CpSubmit(via, path) ==
    /\ cpPc \in {"idle", "returned"}
    /\ cpLeft > 0
    /\ cpLeft' = cpLeft - 1
    /\ cpSub' = [via |-> via, path |-> path, before |-> toolchain[path],
                 afterFailure |-> (lastCompile[path] = "error")]
    /\ cpPc' = IF via = "processor" THEN "ps_check" ELSE "ev_compile"
    /\ cpOut' = "none"
    /\ UNCHANGED <<engineVars, scoreVars, poolVars, sinkVars, runVars, stageVars,
                   cmpVars, guardVars, auxVars, compilation_cache,
                   sourceOk, toolchain, lastCompile, recompiled>>

\* the contestant repairs a source that does not compile
CpRepair(path) ==
    /\ cpPc \in {"idle", "returned"}
    /\ IsCSource(path)
    /\ ~sourceOk[path]
    /\ sourceOk' = [sourceOk EXCEPT ![path] = TRUE]
    /\ UNCHANGED <<engineVars, scoreVars, poolVars, sinkVars, runVars, stageVars,
                   cmpVars, guardVars, auxVars, compilation_cache,
                   toolchain, lastCompile, recompiled, cpPc, cpSub, cpOut,
                   cpLeft>>

\* processor.py lines 36-38: compile only a C/C++ source that is not in
\* Processor._compilation_cache
PsCheckCache ==
    /\ cpPc = "ps_check"
    /\ cpPc' = IF IsCSource(cpSub.path) /\ cpSub.path \notin compilation_cache
               THEN "ps_compile" ELSE "ps_io"
    /\ UNCHANGED <<engineVars, scoreVars, poolVars, sinkVars, runVars, stageVars,
                   cmpVars, guardVars, auxVars, compilation_cache,
                   sourceOk, toolchain, lastCompile, recompiled, cpSub, cpOut,
                   cpLeft>>

\* a cache that takes the path whatever the compilation returned
CacheAfterCompileAlways(cache, path, ok) == cache \cup {path}

\* processor.py lines 40-52: return on a failure, else
\* Processor._compilation_cache[solution_path] = True
CacheAfterCompile(cache, path, ok) == IF ok THEN cache \cup {path} ELSE cache

\* compiler.py lines 26-54 and evaluator.py lines 152-182: subprocess.run of
\* gcc or g++ on a C/C++ source; the history of the path is updated
ToolchainRun(path) ==
    /\ toolchain' = [toolchain EXCEPT ![path] = @ + 1]
    /\ lastCompile' = [lastCompile EXCEPT ![path] =
                          IF sourceOk[path] THEN "ok" ELSE "error"]
    /\ recompiled' = IF lastCompile[path] = "ok"
                     THEN recompiled \cup {path} ELSE recompiled

\* processor.py lines 39-52: Compiler.compile(solution_path); a failure
\* returns the COMPILATION_ERROR result, a success is cached
PsCompile ==
    /\ cpPc = "ps_compile"
    /\ ToolchainRun(cpSub.path)
    /\ compilation_cache' =
           CacheAfterCompile(compilation_cache, cpSub.path, sourceOk[cpSub.path])
    /\ IF sourceOk[cpSub.path]
       THEN cpPc' = "ps_io" /\ UNCHANGED cpOut
       ELSE cpPc' = "returned" /\ cpOut' = COMPILATION_ERROR
    /\ UNCHANGED <<engineVars, scoreVars, poolVars, sinkVars, runVars, stageVars,
                   cmpVars, guardVars, auxVars, sourceOk, cpSub,
                   cpLeft>>

\* processor.py lines 55-56: the path is not in Processor._file_io_cache, which
\* nothing fills before line 57, and the name FileIODetector is not bound in
\* processor.py (it imports Compiler and TestRunner only): NameError
PsDetectIO ==
    /\ cpPc = "ps_io"
    /\ cpPc' = "returned"
    /\ cpOut' = "raised"
    /\ UNCHANGED <<engineVars, scoreVars, poolVars, sinkVars, runVars, stageVars,
                   cmpVars, guardVars, auxVars, compilation_cache,
                   sourceOk, toolchain, lastCompile, recompiled, cpSub, cpLeft>>

\* evaluator.py lines 106-143: a C/C++ source is compiled by self._compile at
\* every submission; a failure returns the COMPILATION_ERROR result, else the
\* test cases are run and the result is scored
EvCompile ==
    /\ cpPc = "ev_compile"
    /\ IF IsCSource(cpSub.path)
       THEN /\ ToolchainRun(cpSub.path)
            /\ cpOut' = IF sourceOk[cpSub.path] THEN "evaluated"
                        ELSE COMPILATION_ERROR
       ELSE /\ cpOut' = "evaluated"
            /\ UNCHANGED <<toolchain, lastCompile, recompiled>>
    /\ cpPc' = "returned"
    /\ UNCHANGED <<engineVars, scoreVars, poolVars, sinkVars, runVars, stageVars,
                   cmpVars, guardVars, auxVars, compilation_cache,
                   sourceOk, cpSub, cpLeft>>

\* processor.py lines 81-84: Processor.clear_caches(); the history of the
\* compilations restarts
ClearCaches ==
    /\ cpPc \in {"idle", "returned"}
    /\ compilation_cache # {}
    /\ compilation_cache' = {}
    /\ lastCompile' = [p \in Paths |-> "none"]
    /\ UNCHANGED <<engineVars, scoreVars, poolVars, sinkVars, runVars, stageVars,
                   cmpVars, guardVars, auxVars, sourceOk,
                   toolchain, recompiled, cpPc, cpSub, cpOut, cpLeft>>

InitCompile ==
    /\ InitEvalOff
    /\ InitScoreOff
    /\ InitRunOff
    /\ InitStageOff
    /\ InitCompareOff
    /\ InitGuardOff
    /\ InitAuxOff
    /\ compilation_cache = {}
    /\ sourceOk \in {f \in [Paths -> BOOLEAN] : f["s.py"]}
    /\ toolchain = [p \in Paths |-> 0]
    /\ lastCompile = [p \in Paths |-> "none"]
    /\ recompiled = {}
    /\ cpPc = "idle"
    /\ cpSub = NoSub
    /\ cpOut = "none"
    /\ cpLeft = MaxSubmissions

NextCompile ==
    \/ \E via \in {"processor", "evaluator"}, path \in Paths : CpSubmit(via, path)
    \/ \E path \in Paths : CpRepair(path)
    \/ PsCheckCache
    \/ PsCompile
    \/ PsDetectIO
    \/ EvCompile
    \/ ClearCaches

\* submissions processed one after the other, by Processor.process_submission
\* or by Evaluator.evaluate_submission
SpecCompile == InitCompile /\ [][NextCompile]_vars

(***************************************************************************)
(* Texts: Python strings as sequences of characters, with str.strip and    *)
(* str.split('\n').                                                        *)
(***************************************************************************)
\* whitespace removed by str.strip()
IsSpace(c) == c \in {" ", "\n"}

RECURSIVE LStrip(_)
LStrip(s) ==
    IF s = <<>> THEN s
    ELSE IF IsSpace(Head(s)) THEN LStrip(Tail(s)) ELSE s

RECURSIVE RStrip(_)
RStrip(s) ==
    IF s = <<>> THEN s
    ELSE IF IsSpace(s[Len(s)]) THEN RStrip(SubSeq(s, 1, Len(s) - 1)) ELSE s

\* a strip that removes trailing whitespace only
StripTrailing(s) == RStrip(s)

\* str.strip(): leading and trailing whitespace removed
Strip(s) == RStrip(LStrip(s))

\* str.split('\n'): the lines of s; the empty string has one empty line
RECURSIVE SplitLines(_)
SplitLines(s) ==
    IF \A i \in 1..Len(s) : s[i] # "\n" THEN <<s>>
    ELSE LET i == CHOOSE j \in 1..Len(s) :
                      s[j] = "\n" /\ \A h \in 1..(j - 1) : s[h] # "\n"
         IN <<SubSeq(s, 1, i - 1)>> \o SplitLines(SubSeq(s, i + 1, Len(s)))

\* _compare_output of test_runner.py lines 354-367 and of evaluator.py lines
\* 398-410, the same code
CompareOutput(actual, expected) ==
    LET actual_lines == SplitLines(Strip(actual))
        expected_lines == SplitLines(Strip(expected))
    IN /\ Len(actual_lines) = Len(expected_lines)
       /\ \A i \in 1..Len(actual_lines) :
              Strip(actual_lines[i]) = Strip(expected_lines[i])

(***************************************************************************)
(* TestRunner.run_test_case (app/core/modules/test_runner.py): the command, *)
(* the I/O compatibility gate, the staging of the input, the run, the      *)
(* recovery of the output.  The child of this specification exits with     *)
(* code 0 within its memory limit, or runs into the time limit.            *)
(***************************************************************************)
\* Python None
None == "None"

\* the io_details FileIODetector.detect_file_io can return: the names of the
\* input and output file it found, the methods (ifstream standing for the
\* methods other than the two freopen ones), the adaptive flag.  A method
\* that reads a file comes with an input file name, a freopen of stdout with
\* an output file name; a #define of the names gives names without a method
IoDetails ==
    {d \in [adaptive : BOOLEAN, input : {None, "in"}, output : {None, "out"},
            methods : SUBSET {"freopen_stdin", "freopen_stdout", "ifstream"}] :
        /\ "freopen_stdin" \in d.methods => d.input # None
        /\ "ifstream" \in d.methods => d.input # None
        /\ "freopen_stdout" \in d.methods => d.output # None}

\* settings.io_mode
IoModes == {"standard", "file", "auto"}

\* what the child can print or write to its output file
StageTexts == {<<>>, <<" ">>, <<"a">>, <<"a", "b">>}

\* the expected output of the test case
StageExpected == <<"a", "b">>

\* the content of an output file that an earlier run left in the solution
\* directory: a text the child of this run does not produce
StaleText == <<"b">>

NoRoute ==
    [input_data |-> None, use_stdin_pipe |-> TRUE, temp_files |-> {},
     output_file |-> None]

NoStageResult == [status |-> "NONE", error |-> "", actual_output |-> <<>>]

\* uses_file_io = bool(io_details.get('input'))
UsesFileIo(io) == io.input # None

\* test_runner.py lines 168-185: _check_io_compatibility
CheckIoCompatibility(io, io_mode) ==
    IF io.adaptive THEN TRUE
    ELSE IF io_mode = "standard" /\ UsesFileIo(io) THEN FALSE
    ELSE IF io_mode = "file" /\ ~UsesFileIo(io) THEN FALSE
    ELSE TRUE

\* test_runner.py lines 29-41: the command for the extension of the solution
StCommand ==
    /\ stPc = "start"
    /\ IF stCfg.fault = "ext"
       THEN /\ stResult' = [NoStageResult EXCEPT !.status = RUNTIME_ERROR,
                                                 !.error = "extension"]
            /\ stPc' = "done"
       ELSE /\ stPc' = "gate"
            /\ UNCHANGED stResult
    /\ UNCHANGED <<engineVars, scoreVars, poolVars, sinkVars, runVars, compVars,
                   cmpVars, guardVars, auxVars,
                   stCfg, stFiles, stOutText, stRoute, stChild, stStdout>>

\* test_runner.py lines 43-59: the io_details, the io_mode, the gate
StGate ==
    /\ stPc = "gate"
    /\ IF CheckIoCompatibility(stCfg.io, stCfg.io_mode)
       THEN /\ stPc' = "read"
            /\ UNCHANGED stResult
       ELSE /\ stResult' = [NoStageResult EXCEPT !.status = RUNTIME_ERROR,
                                                 !.error = "incompatible"]
            /\ stPc' = "done"
    /\ UNCHANGED <<engineVars, scoreVars, poolVars, sinkVars, runVars, compVars,
                   cmpVars, guardVars, auxVars,
                   stCfg, stFiles, stOutText, stRoute, stChild, stStdout>>

\* test_runner.py lines 61-62 and 139-150: _read_test_files; an OSError of
\* open() is caught by the handler of run_test_case
StRead ==
    /\ stPc = "read"
    /\ IF stCfg.fault = "read"
       THEN /\ stResult' = [NoStageResult EXCEPT !.status = RUNTIME_ERROR,
                                                 !.error = "OSError"]
            /\ stPc' = "done"
       ELSE /\ stPc' = "stage"
            /\ UNCHANGED stResult
    /\ UNCHANGED <<engineVars, scoreVars, poolVars, sinkVars, runVars, compVars,
                   cmpVars, guardVars, auxVars,
                   stCfg, stFiles, stOutText, stRoute, stChild, stStdout>>

\* the branch of _prepare_run_config that writes the input file, lines
\* 240-267 and 276-300
WritesInputFile(io, io_mode) ==
    \/ io.adaptive
    \/ io_mode # "standard" /\ (io_mode = "file" \/ (io_mode = "auto" /\ UsesFileIo(io)))

\* test_runner.py lines 216-306: the config _prepare_run_config returns
PrepareRunConfig(io, io_mode) ==
    IF io.adaptive
    THEN [input_data |-> "data", use_stdin_pipe |-> TRUE, temp_files |-> {"in"},
          output_file |-> io.output]
    ELSE IF io_mode = "standard"
    THEN [NoRoute EXCEPT !.input_data = "data"]
    ELSE IF io_mode = "file" \/ (io_mode = "auto" /\ UsesFileIo(io))
    THEN IF "freopen_stdin" \in io.methods
         THEN [input_data |-> "", use_stdin_pipe |-> TRUE,
               temp_files |-> {"in"}, output_file |-> io.output]
         ELSE [input_data |-> None, use_stdin_pipe |-> FALSE,
               temp_files |-> {"in"}, output_file |-> io.output]
    ELSE [NoRoute EXCEPT !.input_data = "data"]

\* a staging that leaves an existing output file in place
KeepExistingOutput(files, output_file_name) == files

\* test_runner.py lines 252-259 and 283-289: if output_file_name: the file of
\* that name in the solution directory is removed if it exists
RemoveExistingOutput(files, output_file_name) ==
    IF output_file_name # None THEN files \ {"out"} ELSE files

\* test_runner.py line 65: _prepare_run_config.  os.path.join(solution_dir,
\* None) raises TypeError when the input file is to be written and no input
\* file name was detected; the input file is written, a pre-existing output
\* file removed
StPrepare ==
    /\ stPc = "stage"
    /\ IF WritesInputFile(stCfg.io, stCfg.io_mode) /\ stCfg.io.input = None
       THEN /\ stResult' = [NoStageResult EXCEPT !.status = RUNTIME_ERROR,
                                                 !.error = "TypeError"]
            /\ stPc' = "done"
            /\ UNCHANGED <<stFiles, stOutText, stRoute>>
       ELSE /\ stRoute' = PrepareRunConfig(stCfg.io, stCfg.io_mode)
            /\ stFiles' = IF WritesInputFile(stCfg.io, stCfg.io_mode)
                          THEN RemoveExistingOutput(stFiles, stCfg.io.output)
                                   \cup {"in"}
                          ELSE stFiles
            /\ stOutText' = IF "out" \in stFiles' THEN stOutText ELSE <<>>
            /\ stPc' = "run"
            /\ UNCHANGED stResult
    /\ UNCHANGED <<engineVars, scoreVars, poolVars, sinkVars, runVars, compVars,
                   cmpVars, guardVars, auxVars,
                   stCfg, stChild, stStdout>>

\* process_manager.py lines 94-101: the finally clause unlinks the temp_files
CleanTempFiles(files, temp_files) == files \ temp_files

\* test_runner.py lines 67-88 over process_manager.py lines 30-101: Popen
\* raises (no executable), or the child runs, prints, writes its output file
\* if it has one, and exits or is killed at the time limit; the temp_files are
\* unlinked in each case
StRun ==
    /\ stPc = "run"
    /\ \E outcome \in {"spawn_error", "exit", "timeout"},
          text \in StageTexts, writes \in BOOLEAN, written \in StageTexts :
         /\ outcome = "spawn_error" => text = <<>> /\ ~writes
         /\ writes => stCfg.io.output # None
         /\ ~writes => written = <<>>
         /\ stChild' = (outcome # "spawn_error")
         /\ stStdout' = text
         /\ stFiles' = CleanTempFiles(IF writes THEN stFiles \cup {"out"} ELSE stFiles,
                                      stRoute.temp_files)
         /\ stOutText' = IF writes THEN written ELSE stOutText
         /\ CASE outcome = "spawn_error" ->
                   /\ stResult' = [NoStageResult EXCEPT !.status = RUNTIME_ERROR,
                                                        !.error = "spawn error"]
                   /\ stPc' = "done"
              [] outcome = "timeout" ->
                   /\ stResult' = [NoStageResult EXCEPT
                                      !.status = TIME_LIMIT_EXCEEDED]
                   /\ stPc' = "done"
              [] outcome = "exit" ->
                   /\ stPc' = "recover"
                   /\ UNCHANGED stResult
    /\ UNCHANGED <<engineVars, scoreVars, poolVars, sinkVars, runVars, compVars,
                   cmpVars, guardVars, auxVars,
                   stCfg, stRoute>>

\* an output recovery that never looks at the output file
GetActualOutputStdout(stdout, fileThere, fileText, adaptive) == Strip(stdout)

\* test_runner.py lines 308-352: _get_actual_output.  fileThere: an output
\* file path was staged and the file exists; fileText: its content
GetActualOutput(stdout, fileThere, fileText, adaptive) ==
    LET file_output == IF fileThere THEN Strip(fileText) ELSE <<>>
        stdout_output == Strip(stdout)
        first == file_output
        second == IF (first = <<>> \/ adaptive) /\ stdout_output # <<>>
                  THEN IF first = <<>> THEN stdout_output
                       ELSE IF Len(stdout_output) > Len(first) THEN stdout_output
                       ELSE first
                  ELSE first
    IN IF second # <<>> THEN second
       ELSE IF stdout_output # <<>> THEN stdout_output
       ELSE file_output

\* test_runner.py lines 90-137: the actual output, then the comparison with
\* the expected output
StRecover ==
    /\ stPc = "recover"
    /\ LET out == GetActualOutput(stStdout,
                      stRoute.output_file # None /\ "out" \in stFiles,
                      stOutText, stCfg.io.adaptive)
       IN stResult' = [status |-> IF CompareOutput(out, StageExpected)
                                  THEN CORRECT ELSE WRONG_ANSWER,
                       error |-> "", actual_output |-> out]
    /\ stPc' = "done"
    /\ UNCHANGED <<engineVars, scoreVars, poolVars, sinkVars, runVars, compVars,
                   cmpVars, guardVars, auxVars,
                   stCfg, stFiles, stOutText, stRoute, stChild, stStdout>>

InitStage ==
    /\ InitEvalOff
    /\ InitScoreOff
    /\ InitRunOff
    /\ InitCompileOff
    /\ InitCompareOff
    /\ InitGuardOff
    /\ InitAuxOff
    /\ stCfg \in [io : IoDetails, io_mode : IoModes,
                  fault : {"none", "ext", "read"}, stale : BOOLEAN]
    /\ stPc = "start"
    /\ stFiles = IF stCfg.stale THEN {"out"} ELSE {}
    /\ stOutText = IF stCfg.stale THEN StaleText ELSE <<>>
    /\ stRoute = NoRoute
    /\ stChild = FALSE
    /\ stStdout = <<>>
    /\ stResult = NoStageResult

NextStage ==
    \/ StCommand
    \/ StGate
    \/ StRead
    \/ StPrepare
    \/ StRun
    \/ StRecover

\* one call of TestRunner.run_test_case
SpecStage == InitStage /\ [][NextStage]_vars

(***************************************************************************)
(* Output comparison: TestRunner._compare_output and                       *)
(* Evaluator._compare_output applied to a pair of texts.                   *)
(***************************************************************************)
\* the longest text compared
MaxTextLen == 4

TextChars == {"a", " ", "\n"}

Texts == UNION {[1..n -> TextChars] : n \in 0..MaxTextLen}

\* a comparison that takes the lines as they are
EvaluatorCompareOutputRaw(actual, expected) ==
    SplitLines(Strip(actual)) = SplitLines(Strip(expected))

\* evaluator.py lines 398-410: Evaluator._compare_output
EvaluatorCompareOutput(actual, expected) ==
    LET actual_lines == SplitLines(Strip(actual))
        expected_lines == SplitLines(Strip(expected))
    IN IF Len(actual_lines) # Len(expected_lines) THEN FALSE
       ELSE \A i \in 1..Len(actual_lines) :
                Strip(actual_lines[i]) = Strip(expected_lines[i])

\* both comparisons of one pair, each also with the arguments swapped and
\* of the actual text with itself
ApplyCompare ==
    /\ cmpPc = "start"
    /\ cmpRunner' = [direct |-> CompareOutput(cmpActual, cmpExpected),
                     swapped |-> CompareOutput(cmpExpected, cmpActual),
                     self |-> CompareOutput(cmpActual, cmpActual)]
    /\ cmpEvaluator' = [direct |-> EvaluatorCompareOutput(cmpActual, cmpExpected),
                        swapped |-> EvaluatorCompareOutput(cmpExpected, cmpActual),
                        self |-> EvaluatorCompareOutput(cmpActual, cmpActual)]
    /\ cmpPc' = "done"
    /\ UNCHANGED <<engineVars, scoreVars, poolVars, sinkVars, runVars, compVars,
                   stageVars, guardVars, auxVars, cmpActual,
                   cmpExpected>>

InitCompare ==
    /\ InitEvalOff
    /\ InitScoreOff
    /\ InitRunOff
    /\ InitCompileOff
    /\ InitStageOff
    /\ InitGuardOff
    /\ InitAuxOff
    /\ cmpActual \in Texts
    /\ cmpExpected \in Texts
    /\ cmpPc = "start"
    /\ cmpRunner = [direct |-> FALSE]
    /\ cmpEvaluator = [direct |-> FALSE]

NextCompare == ApplyCompare

\* the two _compare_output functions on every pair of texts
SpecCompare == InitCompare /\ [][NextCompare]_vars

(***************************************************************************)
(* The helpers of one run: the spill file of a large input, the memory     *)
(* sampler thread, the watchdog timer.  Evaluator._run_test_case           *)
(* (app/core/evaluator.py) and ProcessManager.run_with_memory_monitoring   *)
(* under TestRunner.run_test_case.  The clock counts fifths of a time      *)
(* unit.                                                                   *)
(***************************************************************************)
\* evaluator.py line 233: 1024*1024 characters
SpillLimit == 1048576

\* settings.time_limit, the timeout of communicate, in fifths
LimitAt == 5 * TimeLimit

\* evaluator.py line 282: settings.time_limit * 1.2, in fifths
WatchdogAt == 6 * TimeLimit

\* the clock stops here
LastTick == WatchdogAt + 1

\* the size of the input, what goes wrong (the write of the spill file, the
\* start of the child, the decoding of the child's output in communicate),
\* and when the child exits if nobody kills it (LastTick + 1: never)
GuardConfigs ==
    [path : {"runner", "evaluator"},
     input_size : {SpillLimit, SpillLimit + 1},
     fault : {"none", "write", "spawn", "decode"},
     exitsAt : {0, LimitAt, LastTick + 1}]

NoOutcome == [kind |-> "none", status |-> "NONE"]

\* evaluator.py lines 230-237: an input of more than 1024*1024 characters is
\* written to a NamedTemporaryFile(delete=False); temp_in_path is assigned
\* after the write.  ProcessManager has no spill file
GdSpill ==
    /\ gdPc = "start"
    /\ IF gdCfg.path = "evaluator" /\ gdCfg.input_size > SpillLimit
       THEN /\ gdSpill' = "exists"
            /\ IF gdCfg.fault = "write"
               THEN /\ gdOutcome' = [kind |-> "raise", status |-> "OSError"]
                    /\ gdPc' = "finally"
                    /\ UNCHANGED temp_in_path
               ELSE /\ temp_in_path' = "spill"
                    /\ gdPc' = "spawn"
                    /\ UNCHANGED gdOutcome
       ELSE /\ gdPc' = "spawn"
            /\ UNCHANGED <<gdSpill, temp_in_path, gdOutcome>>
    /\ UNCHANGED <<engineVars, scoreVars, poolVars, sinkVars, runVars, compVars,
                   stageVars, cmpVars, auxVars, gdCfg, gdStdin, gdChild, gdSampler,
                   kill_timer, gdNow>>

\* evaluator.py lines 238-257, process_manager.py lines 33-49: Popen with
\* stdin from the spill file or from a pipe
GdPopen ==
    /\ gdPc = "spawn"
    /\ IF gdCfg.fault = "spawn"
       THEN /\ gdOutcome' = [kind |-> "raise", status |-> "OSError"]
            /\ gdPc' = "finally"
            /\ UNCHANGED <<gdChild, gdStdin>>
       ELSE /\ gdChild' = "running"
            /\ gdStdin' = IF temp_in_path # None THEN "file" ELSE "pipe"
            /\ gdPc' = "monitor"
            /\ UNCHANGED gdOutcome
    /\ UNCHANGED <<engineVars, scoreVars, poolVars, sinkVars, runVars, compVars,
                   stageVars, cmpVars, auxVars, gdCfg, gdSpill, temp_in_path, gdSampler,
                   kill_timer, gdNow>>

\* evaluator.py lines 281-286: the kill timer is started; ProcessManager
\* starts none
ArmedTimer(path) == IF path = "evaluator" THEN "armed" ELSE "none"

\* evaluator.py lines 259-286, process_manager.py lines 51-71: the memory
\* monitor thread is started, and the kill timer
GdMonitor ==
    /\ gdPc = "monitor"
    /\ gdSampler' = "running"
    /\ kill_timer' = ArmedTimer(gdCfg.path)
    /\ gdPc' = "wait"
    /\ UNCHANGED <<engineVars, scoreVars, poolVars, sinkVars, runVars, compVars,
                   stageVars, cmpVars, auxVars, gdCfg, gdSpill, temp_in_path, gdStdin,
                   gdChild, gdOutcome, gdNow>>

\* time passes while the parent waits; the child exits at its own time
GdTick ==
    /\ gdPc = "wait"
    /\ gdNow < LastTick
    /\ gdNow' = gdNow + 1
    /\ gdChild' = IF gdChild = "running" /\ gdNow' >= gdCfg.exitsAt
                  THEN "exited" ELSE gdChild
    /\ UNCHANGED <<engineVars, scoreVars, poolVars, sinkVars, runVars, compVars,
                   stageVars, cmpVars, auxVars, gdCfg, gdPc, gdSpill, temp_in_path,
                   gdStdin, gdSampler, kill_timer, gdOutcome>>

\* evaluator.py lines 222-228: kill_on_timeout, run by the timer thread
GdWatchdog ==
    /\ kill_timer = "armed"
    /\ gdNow >= WatchdogAt
    /\ kill_timer' = "fired"
    /\ gdChild' = IF gdChild = "running" THEN "killed by watchdog" ELSE gdChild
    /\ UNCHANGED <<engineVars, scoreVars, poolVars, sinkVars, runVars, compVars,
                   stageVars, cmpVars, auxVars, gdCfg, gdPc, gdSpill, temp_in_path,
                   gdStdin, gdSampler, gdOutcome, gdNow>>

\* evaluator.py lines 288-301, process_manager.py lines 73-84: communicate
\* returns before its timeout, the child ended; the timer is cancelled and
\* the sampler signaled.  communicate decodes the output and raises
\* UnicodeDecodeError on bytes that are no text
GdCommunicate ==
    /\ gdPc = "wait"
    /\ gdChild # "running"
    /\ gdNow <= LimitAt
    /\ IF gdCfg.fault = "decode"
       THEN /\ gdOutcome' = [kind |-> "raise", status |-> "UnicodeDecodeError"]
            /\ UNCHANGED <<kill_timer, gdSampler>>
       ELSE /\ kill_timer' = IF kill_timer = "armed" THEN "cancelled" ELSE kill_timer
            /\ gdSampler' = "signaled"
            /\ gdOutcome' = [kind |-> "fall through", status |-> "NONE"]
    /\ gdPc' = "finally"
    /\ UNCHANGED <<engineVars, scoreVars, poolVars, sinkVars, runVars, compVars,
                   stageVars, cmpVars, auxVars, gdCfg, gdSpill, temp_in_path, gdStdin,
                   gdChild, gdNow>>

\* evaluator.py lines 303-322, process_manager.py lines 86-92: communicate
\* raises TimeoutExpired once its timeout has passed, whether or not the
\* child has ended meanwhile; process.kill(), the sampler signaled, the
\* timeout result returned
GdTimeoutExpired ==
    /\ gdPc = "wait"
    /\ \/ gdNow > LimitAt
       \/ gdNow = LimitAt /\ gdChild = "running"
    /\ gdChild' = IF gdChild = "running" THEN "killed" ELSE gdChild
    /\ gdSampler' = "signaled"
    /\ gdOutcome' = [kind |-> "return", status |-> TIME_LIMIT_EXCEEDED]
    /\ gdPc' = "finally"
    /\ UNCHANGED <<engineVars, scoreVars, poolVars, sinkVars, runVars, compVars,
                   stageVars, cmpVars, auxVars, gdCfg, gdSpill, temp_in_path, gdStdin,
                   kill_timer, gdNow>>

\* evaluator.py lines 325-330: the file at temp_in_path is unlinked
SpillAfterFinally(spill, path) ==
    IF path # None /\ spill = "exists" THEN "removed" ELSE spill

\* evaluator.py lines 324-396: the finally clause, then the return of the
\* timeout result, the handler of the exception, or the classification of
\* the exited child.  process_manager.py lines 94-101 and test_runner.py
\* lines 78-150 for the run of TestRunner
GdFinally ==
    /\ gdPc = "finally"
    /\ gdSpill' = SpillAfterFinally(gdSpill, temp_in_path)
    /\ kill_timer' = IF kill_timer = "armed" THEN "cancelled" ELSE kill_timer
    /\ gdOutcome' =
          CASE gdOutcome.kind = "raise" ->
                  [kind |-> "result", status |-> RUNTIME_ERROR]
            [] gdOutcome.kind = "return" ->
                  [kind |-> "result", status |-> gdOutcome.status]
            [] OTHER ->
                  [kind |-> "result",
                   status |-> IF gdChild = "exited" THEN CORRECT
                              ELSE RUNTIME_ERROR]
    /\ gdPc' = "done"
    /\ UNCHANGED <<engineVars, scoreVars, poolVars, sinkVars, runVars, compVars,
                   stageVars, cmpVars, auxVars, gdCfg, temp_in_path, gdStdin, gdChild,
                   gdSampler, gdNow>>

InitGuard ==
    /\ InitEvalOff
    /\ InitScoreOff
    /\ InitRunOff
    /\ InitCompileOff
    /\ InitStageOff
    /\ InitCompareOff
    /\ InitAuxOff
    /\ gdCfg \in GuardConfigs
    /\ gdPc = "start"
    /\ gdSpill = "none"
    /\ temp_in_path = None
    /\ gdStdin = "none"
    /\ gdChild = "unborn"
    /\ gdSampler = "none"
    /\ kill_timer = "none"
    /\ gdOutcome = NoOutcome
    /\ gdNow = 0

NextGuard ==
    \/ GdSpill
    \/ GdPopen
    \/ GdMonitor
    \/ GdTick
    \/ GdWatchdog
    \/ GdCommunicate
    \/ GdTimeoutExpired
    \/ GdFinally

\* one run and its spill file, sampler and watchdog
SpecGuard == InitGuard /\ [][NextGuard]_vars

(***************************************************************************)
(* Settings (app/models/settings.py): the global values, the per-problem   *)
(* overrides, and their resolution.                                        *)
(***************************************************************************)
\* the largest time or memory limit a setting takes
MaxSetting == 2

\* the values of a ProblemSettings
ProblemSettingsValues ==
    [time_limit : 1..MaxSetting, memory_limit : 1..MaxSetting,
     io_mode : {"auto", "file"}]

\* the problems that have settings
SettingsProblems == {"p1", "p2"}

\* no override for this problem
NoOverride == [time_limit |-> 0, memory_limit |-> 0, io_mode |-> "none"]

NoAnswer == [problem |-> "none", value |-> NoOverride, before |-> <<>>]

\* a resolution that always derives from the globals
GetProblemSettingsGlobal(overrides, globals, p) ==
    [time_limit |-> globals.time_limit, memory_limit |-> globals.memory_limit,
     io_mode |-> globals.io_mode]

\* settings.py lines 50-58: what get_problem_settings returns
GetProblemSettings(overrides, globals, p) ==
    IF overrides[p] # NoOverride
    THEN overrides[p]
    ELSE [time_limit |-> globals.time_limit,
          memory_limit |-> globals.memory_limit,
          io_mode |-> globals.io_mode]

\* settings.py lines 50-58: get_problem_settings(p) is called
SetResolve ==
    /\ setPc = "on"
    /\ \E p \in SettingsProblems :
         answer' = [problem |-> p,
                    value |-> GetProblemSettings(problem_settings,
                                                 global_settings, p),
                    before |-> problem_settings]
    /\ UNCHANGED <<engineVars, scoreVars, poolVars, sinkVars, runVars, compVars,
                   stageVars, cmpVars, guardVars, detVars, regVars,
                   setPc, global_settings,
                   problem_settings>>

\* settings.py lines 60-62: set_problem_settings(p, settings)
SetProblemSettings ==
    /\ setPc = "on"
    /\ \E p \in SettingsProblems, v \in ProblemSettingsValues :
         problem_settings' = [problem_settings EXCEPT ![p] = v]
    /\ answer' = NoAnswer
    /\ UNCHANGED <<engineVars, scoreVars, poolVars, sinkVars, runVars, compVars,
                   stageVars, cmpVars, guardVars, detVars, regVars,
                   setPc, global_settings>>

\* settings.py lines 64-69: apply_global_settings_to_all
ApplyGlobalSettingsToAll ==
    /\ setPc = "on"
    /\ problem_settings' =
          [p \in SettingsProblems |->
              IF problem_settings[p] # NoOverride
              THEN [time_limit |-> global_settings.time_limit,
                    memory_limit |-> global_settings.memory_limit,
                    io_mode |-> global_settings.io_mode]
              ELSE NoOverride]
    /\ answer' = NoAnswer
    /\ UNCHANGED <<engineVars, scoreVars, poolVars, sinkVars, runVars, compVars,
                   stageVars, cmpVars, guardVars, detVars, regVars,
                   setPc, global_settings>>

\* the global values are assigned anew (the fields of the dataclass, lines
\* 25-27)
SetGlobals ==
    /\ setPc = "on"
    /\ global_settings' \in ProblemSettingsValues
    /\ global_settings' # global_settings
    /\ answer' = NoAnswer
    /\ UNCHANGED <<engineVars, scoreVars, poolVars, sinkVars, runVars, compVars,
                   stageVars, cmpVars, guardVars, detVars, regVars,
                   setPc, problem_settings>>

InitSettings ==
    /\ InitEvalOff
    /\ InitScoreOff
    /\ InitRunOff
    /\ InitCompileOff
    /\ InitStageOff
    /\ InitCompareOff
    /\ InitGuardOff
    /\ InitDetectOff
    /\ InitRegistryOff
    /\ setPc = "on"
    /\ global_settings \in ProblemSettingsValues
    /\ problem_settings = [p \in SettingsProblems |-> NoOverride]
    /\ answer = NoAnswer

NextSettings ==
    \/ SetResolve
    \/ SetProblemSettings
    \/ ApplyGlobalSettingsToAll
    \/ SetGlobals

\* a Settings object, its writers and get_problem_settings
SpecSettings == InitSettings /\ [][NextSettings]_vars

(***************************************************************************)
(* FileIODetector.detect_file_io (app/core/modules/file_io_detector.py)    *)
(* applied to a source described by what its text contains.                *)
(***************************************************************************)
\* how a file is named where a method is used: not used, by a string literal,
\* by an expression that is no literal
NameForms == {"none", "lit", "var"}

\* the sources: the extension, a #define NAME "task", a problem_id passed to
\* the detector, a line "if (x.is_open())", a function "void docfile()", the
\* streams constructed, the freopen calls on stdin and stdout, one fopen call
\* that reads or writes
Sources ==
    [ext : {"cpp", "py"},
     name_macro : BOOLEAN,
     problem_id : BOOLEAN,
     conditional : BOOLEAN,
     docfile : BOOLEAN,
     ifstream : NameForms,
     ofstream : NameForms,
     freopen_in : NameForms,
     freopen_out : NameForms,
     fopen : {"none", "r_lit", "w_lit", "r_var", "w_var"}]

\* file_io_detector.py lines 19-27: the result before anything is detected;
\* a file name is a tuple of its parts
EmptyDetection ==
    [input |-> <<None>>, output |-> <<None>>, methods |-> {},
     conditional_io |-> FALSE, adaptive |-> FALSE]

\* a detection of the adaptive flag alone
DetectConditionalFlagOnly(f) ==
    LET c == \/ f.name_macro /\ f.docfile
             \/ f.conditional
             \/ f.docfile /\ (f.freopen_in # "none" \/ f.freopen_out # "none")
    IN [conditional_io |-> FALSE, adaptive |-> c]

\* file_io_detector.py lines 36-46 and 79-102: NAME macro with docfile, the
\* conditional patterns, docfile() with freopen; each sets both flags
DetectConditional(f) ==
    LET c == \/ f.name_macro /\ f.docfile
             \/ f.conditional
             \/ f.docfile /\ (f.freopen_in # "none" \/ f.freopen_out # "none")
    IN [conditional_io |-> c, adaptive |-> c]

\* file_io_detector.py lines 105-141: _detect_io_methods; 'fstream' is a
\* substring of 'ifstream' and of 'ofstream'
DetectIoMethods(f) ==
    (IF f.ifstream # "none" THEN {"ifstream", "fstream"} ELSE {})
    \cup (IF f.ofstream # "none" THEN {"ofstream", "fstream"} ELSE {})
    \cup (IF f.freopen_in # "none" THEN {"freopen_stdin"} ELSE {})
    \cup (IF f.freopen_out # "none" THEN {"freopen_stdout"} ELSE {})
    \cup (IF f.fopen # "none" THEN {"fopen"} ELSE {})

\* file_io_detector.py lines 144-186: the names found in the text; priority
\* 1 freopen, 2 the C++ streams (the fstream pattern of the input side also
\* matches an ofstream), 4 fopen calls by their mode
ExtractedNames(f) ==
    LET in1 == IF f.freopen_in = "lit" THEN "fin.lit" ELSE None
        out1 == IF f.freopen_out = "lit" THEN "fout.lit" ELSE None
        streams == f.ifstream # "none" \/ f.ofstream # "none"
        in2 == IF in1 = None /\ streams
               THEN IF f.ifstream = "lit" THEN "ifs.lit"
                    ELSE IF f.ofstream = "lit" THEN "ofs.lit" ELSE None
               ELSE in1
        out2 == IF out1 = None /\ streams /\ f.ofstream = "lit"
                THEN "ofs.lit" ELSE out1
        in4 == IF in2 = None /\ f.fopen = "r_lit" THEN "fopen.lit" ELSE in2
        out4 == IF out2 = None /\ f.fopen = "w_lit" THEN "fopen.lit" ELSE out2
    IN [input |-> in4, output |-> out4]

\* the default name with the suffix sfx ("INP", "OUT") and the fallback
DefaultName(f, sfx, fallback) ==
    IF f.name_macro THEN <<"NAME", sfx>>
    ELSE IF f.problem_id THEN <<"problem_id", sfx>>
    ELSE <<fallback>>

\* file_io_detector.py lines 275-309: _set_default_file_names
SetDefaultFileNames(f, names) ==
    [input |-> IF names.input = None
                  /\ (f.ifstream # "none" \/ f.freopen_in # "none"
                      \/ f.fopen # "none")
               THEN DefaultName(f, "INP", "input.txt") ELSE <<names.input>>,
     output |-> IF names.output = None
                   /\ (f.ofstream # "none" \/ f.freopen_out # "none"
                       \/ f.fopen # "none")
                THEN DefaultName(f, "OUT", "output.txt") ELSE <<names.output>>]

\* file_io_detector.py lines 8-66: detect_file_io
DetectFileIo(f) ==
    IF f.ext # "cpp" THEN EmptyDetection
    ELSE LET flags == DetectConditional(f)
             names == SetDefaultFileNames(f, ExtractedNames(f))
         IN [input |-> names.input, output |-> names.output,
             methods |-> DetectIoMethods(f),
             conditional_io |-> flags.conditional_io,
             adaptive |-> flags.adaptive]

\* detect_file_io is called on the source
ApplyDetect ==
    /\ detPc = "start"
    /\ detOut' = DetectFileIo(detSrc)
    /\ detPc' = "done"
    /\ UNCHANGED <<engineVars, scoreVars, poolVars, sinkVars, runVars, compVars,
                   stageVars, cmpVars, guardVars, setVars, regVars, detSrc>>

InitDetect ==
    /\ InitEvalOff
    /\ InitScoreOff
    /\ InitRunOff
    /\ InitCompileOff
    /\ InitStageOff
    /\ InitCompareOff
    /\ InitGuardOff
    /\ InitSettingsOff
    /\ InitRegistryOff
    /\ detSrc \in Sources
    /\ detPc = "start"
    /\ detOut = EmptyDetection

NextDetect == ApplyDetect

\* the detector on every source
SpecDetect == InitDetect /\ [][NextDetect]_vars

(***************************************************************************)
(* One Evaluator used for a run and then for a rejudge                     *)
(* (app/core/rejudge_thread.py)                                            *)
(***************************************************************************)
\* evaluate_all has returned or raised
FirstRunEnded ==
    \/ parPc = "done"
    \/ role["w1"] = "seq" /\ pc["w1"] \in {"done", "raised"}

\* lines 47-54 of _rejudge_single: the thread installs its callback and
\* calls evaluator.evaluate_submission(contestant, problem) on the Evaluator
\* the earlier run used; nothing resets Evaluator._stop_requested
RjStart(t) ==
    /\ role[t] = "off"
    /\ pc[t] = "off"
    /\ FirstRunEnded
    /\ \A c \in StopCallers : stopPc[c] \in {"idle", "returned", "raised"}
    /\ \E k \in RunKeys :
         /\ solutions[k] = "cpp"
         /\ task' = [task EXCEPT ![t] = k]
    /\ role' = [role EXCEPT ![t] = "rejudge"]
    /\ pc' = [pc EXCEPT ![t] = "es_start"]
    /\ lateTask' = [lateTask EXCEPT ![t] = CancelReturned]
    /\ UNCHANGED <<restVars, inputVars, evalVars, todo, idx, tcr, child, ret,
                   stopVars, obsVars, parVars, lateTests, lateCompiles,
                   compile_result, evaluated>>

\* lines 56-61: the callback restored, result_ready.emit(result)
RjEmit(t) ==
    /\ role[t] = "rejudge"
    /\ pc[t] = "es_ret"
    /\ finals' = [finals EXCEPT ![task[t]] = @ + 1]
    /\ lastFinal' = ret[t]
    /\ pc' = [pc EXCEPT ![t] = "rj_done"]
    /\ UNCHANGED <<restVars, inputVars, evalVars, role, todo, task, idx, tcr,
                   child, ret, stopVars, ticks, parVars, histVars>>

\* the host cancels the sequential run, or has cancelled it
ReuseCancel == role["w1"] = "seq" /\ EvaluatorStop("host")

InitReuse ==
    /\ InitCommon
    /\ InitUnitsOff
    /\ InitPoolOff
    /\ InitScoreOff
    /\ contestants = <<"c1">>
    /\ problems \in {<<"p1">>, <<"p2", "p1">>}
    /\ solutions \in SolutionMaps(contestants, problems, {"cpp"})
    /\ childOutcomes = {CORRECT, WRONG_ANSWER}
    /\ unreadable = {}
    /\ num_threads = RequestedThreads
    /\ par_stop_requested = FALSE
    /\ active_threads = 0
    /\ result_queue = <<>>
    /\ thread_status = [t \in Threads |-> <<"none">>]
    /\ decTmp = [t \in Threads |-> 0]
    /\ completed_tasks = 0
    /\ \/ /\ parPc = "start"
          /\ role = [t \in Threads |-> "off"]
          /\ pc = [t \in Threads |-> "off"]
          /\ todo = [t \in Threads |-> <<>>]
       \/ /\ parPc = "off"
          /\ role = [t \in Threads |-> IF t = "w1" THEN "seq" ELSE "off"]
          /\ pc = [t \in Threads |-> IF t = "w1" THEN "loop" ELSE "off"]
          /\ todo = [t \in Threads |->
                       IF t = "w1" THEN TaskList(contestants, problems)
                       ELSE <<>>]

NextReuse ==
    \/ ParEvaluateAll
    \/ \E t \in Threads : ParWorker(t)
    \/ \E t \in Threads : EvaluateSubmission(t)
    \/ \E t \in Threads : SeqLoop(t)
    \/ \E t \in Threads : SeqDeliver(t)
    \/ EvaluatorStop("par")
    \/ ReuseCancel
    \/ \E t \in Threads : RjStart(t)
    \/ \E t \in Threads : RjEmit(t)

\* a sequential run that the host may cancel, or a parallel run, and then a
\* rejudge of one submission on the same Evaluator
SpecReuse == InitReuse /\ [][NextReuse]_vars

(***************************************************************************)
(* ParallelEvaluator.evaluate_all under fair scheduling                    *)
(***************************************************************************)
InitParLive ==
    /\ InitCommon
    /\ InitUnitsOff
    /\ InitPoolOff
    /\ InitScoreOff
    /\ contestants = <<"c1", "c2">>
    /\ problems \in {<<"p2">>, <<"p1">>}
    /\ num_threads \in 1..RequestedThreads
    /\ solutions \in SolutionMaps(contestants, problems, {"missing", "cpp"})
    /\ childOutcomes = {CORRECT}
    /\ unreadable = {}
    /\ role = [t \in Threads |-> "off"]
    /\ pc = [t \in Threads |-> "off"]
    /\ todo = [t \in Threads |-> <<>>]
    /\ par_stop_requested = FALSE
    /\ active_threads = 0
    /\ result_queue = <<>>
    /\ thread_status = [t \in Threads |-> <<"none">>]
    /\ decTmp = [t \in Threads |-> 0]
    /\ parPc = "start"
    /\ completed_tasks = 0

\* the threads of a run of ParallelEvaluator.evaluate_all: the collecting
\* thread with the stop it calls at its end, and the workers.  A worker in
\* which evaluate_submission raised has no further step: _contestant_worker
\* (lines 120-138) has no handler, the thread ends.
NextParLive ==
    \/ ParEvaluateAll
    \/ \E t \in Threads : ParWorker(t)
    \/ \E t \in Threads : EvaluateSubmission(t)
    \/ EvaluatorStop("par")

\* every thread that can take a step eventually takes one: Python's
\* interpreter switches between runnable threads, and get(timeout=0.1)
\* returns
SpecParLive ==
    /\ InitParLive
    /\ [][NextParLive]_vars
    /\ WF_vars(ParEvaluateAll \/ EvaluatorStop("par"))
    /\ \A t \in Threads : WF_vars(ParWorker(t) \/ EvaluateSubmission(t))

(***************************************************************************)
(* The registry of live children, Evaluator._current_processes, over the   *)
(* test cases of one submission, with Evaluator.stop called by another     *)
(* thread (app/core/evaluator.py).  All the test cases of a submission     *)
(* have the same key, the solution path.                                   *)
(***************************************************************************)
\* what happens to the run of a test case: the child exits in time, the
\* wait times out, the child's output cannot be decoded
RegFaults == {"none", "timeout", "decode"}

\* no entry for the solution path
NoEntry == <<>>

\* line 30 has been executed
RgStopRequested == rgStop # "idle"

\* lines 122-126: the head of the test-case loop
RgLoop ==
    /\ rgPc = "loop"
    /\ IF rgTest = NumTests \/ RgStopRequested
       THEN /\ rgPc' = "finished"
            /\ UNCHANGED rgTest
       ELSE /\ rgTest' = rgTest + 1
            /\ rgPc' = "spawn"
    /\ UNCHANGED <<engineVars, restVars0, setVars, detVars, rgCfg, rgEntry,
                   rgChild, rgStop, rgActed>>

\* lines 238-257: Popen, then self._current_processes[solution_path] = process
RgRegister ==
    /\ rgPc = "spawn"
    /\ rgChild' = [rgChild EXCEPT ![rgTest] = "running"]
    /\ rgEntry' = <<rgTest>>
    /\ rgPc' = "wait"
    /\ UNCHANGED <<engineVars, restVars0, setVars, detVars, rgCfg, rgTest,
                   rgStop, rgActed>>

\* lines 288-301: communicate returns, the child has ended by itself or was
\* killed and is reaped; the decoding of its output may raise
RgCommunicate ==
    /\ rgPc = "wait"
    /\ rgCfg[rgTest] # "timeout" \/ rgChild[rgTest] = "killed"
    /\ rgChild' = [rgChild EXCEPT ![rgTest] = "reaped"]
    /\ rgPc' = IF rgCfg[rgTest] = "decode" THEN "handler" ELSE "fall"
    /\ UNCHANGED <<engineVars, restVars0, setVars, detVars, rgCfg, rgTest,
                   rgEntry, rgStop, rgActed>>

\* lines 303-309: TimeoutExpired, process.kill(), process.communicate()
RgTimeoutExpired ==
    /\ rgPc = "wait"
    /\ rgCfg[rgTest] = "timeout"
    /\ rgChild[rgTest] = "running"
    /\ rgChild' = [rgChild EXCEPT ![rgTest] = "reaped"]
    /\ rgPc' = "timeout"
    /\ UNCHANGED <<engineVars, restVars0, setVars, detVars, rgCfg, rgTest,
                   rgEntry, rgStop, rgActed>>

\* the entry for the solution path after `if solution_path in
\* self._current_processes: del self._current_processes[solution_path]`
DelEntry(entry) == NoEntry

\* lines 311-322: the entry deleted, the timeout result returned
RgTimeoutReturn ==
    /\ rgPc = "timeout"
    /\ rgEntry' = DelEntry(rgEntry)
    /\ rgPc' = "returned"
    /\ UNCHANGED <<engineVars, restVars0, setVars, detVars, rgCfg, rgTest,
                   rgChild, rgStop, rgActed>>

\* lines 324-384: the finally clause, the entry deleted (lines 338-339), the
\* result of the classification returned
RgUnregister ==
    /\ rgPc = "fall"
    /\ rgEntry' = DelEntry(rgEntry)
    /\ rgPc' = "returned"
    /\ UNCHANGED <<engineVars, restVars0, setVars, detVars, rgCfg, rgTest,
                   rgChild, rgStop, rgActed>>

\* lines 324-334 and 386-396: the finally clause, then the handler returns
\* its RUNTIME_ERROR result; no line of it touches the registry
RgHandler ==
    /\ rgPc = "handler"
    /\ rgPc' = "returned"
    /\ UNCHANGED <<engineVars, restVars0, setVars, detVars, rgCfg, rgTest,
                   rgEntry, rgChild, rgStop, rgActed>>

\* lines 127-133: the result appended, the callback called, the next iteration
RgAppend ==
    /\ rgPc = "returned"
    /\ rgPc' = "loop"
    /\ UNCHANGED <<engineVars, restVars0, setVars, detVars, rgCfg, rgTest,
                   rgEntry, rgChild, rgStop, rgActed>>

\* line 30 of stop, called by another thread: self._stop_requested = True
RgStopSet ==
    /\ rgPc # "off"
    /\ rgStop = "idle"
    /\ rgStop' = "set"
    /\ UNCHANGED <<engineVars, restVars0, setVars, detVars, rgCfg, rgPc,
                   rgTest, rgEntry, rgChild, rgActed>>

\* lines 31-35 of stop: process.kill() on every value of the registry
RgStopKill ==
    /\ rgStop = "set"
    /\ IF rgEntry = NoEntry
       THEN UNCHANGED <<rgChild, rgActed>>
       ELSE IF rgChild[rgEntry[1]] = "running"
       THEN /\ rgChild' = [rgChild EXCEPT ![rgEntry[1]] = "killed"]
            /\ UNCHANGED rgActed
       ELSE /\ rgActed' = rgActed \cup {<<rgEntry[1], rgChild[rgEntry[1]]>>}
            /\ UNCHANGED rgChild
    /\ rgStop' = "done"
    /\ UNCHANGED <<engineVars, restVars0, setVars, detVars, rgCfg, rgPc,
                   rgTest, rgEntry>>

InitRegistry ==
    /\ InitEvalOff
    /\ InitScoreOff
    /\ InitRunOff
    /\ InitCompileOff
    /\ InitStageOff
    /\ InitCompareOff
    /\ InitGuardOff
    /\ InitSettingsOff
    /\ InitDetectOff
    /\ rgCfg \in [1..NumTests -> RegFaults]
    /\ rgPc = "loop"
    /\ rgTest = 0
    /\ rgEntry = NoEntry
    /\ rgChild = [i \in 1..NumTests |-> "unborn"]
    /\ rgStop = "idle"
    /\ rgActed = {}

NextRegistry ==
    \/ RgLoop
    \/ RgRegister
    \/ RgCommunicate
    \/ RgTimeoutExpired
    \/ RgTimeoutReturn
    \/ RgUnregister
    \/ RgHandler
    \/ RgAppend
    \/ RgStopSet
    \/ RgStopKill

\* the test cases of one submission and a stop
SpecRegistry == InitRegistry /\ [][NextRegistry]_vars

(***************************************************************************)
(* Claims                                                                  *)
(***************************************************************************)
Delivered == lastFinal.key # NoKey

ExpectedTicks(p, n) == [i \in 1..n |-> <<i, TestCount(p)>>]

\* C1 as stated: every submission evaluated against a problem with N test
\* cases has emitted exactly the N ticks (1, N) .. (N, N), in this order, when
\* its final result is delivered.
C1_ExactlyNTicks ==
    (Delivered /\ solutions[lastFinal.key] = "cpp"
        /\ lastFinal.status # COMPILATION_ERROR)
    => ticks[lastFinal.key] =
           ExpectedTicks(lastFinal.key[2], TestCount(lastFinal.key[2]))

C1_TicksState ==
    /\ \A k \in Keys :
         /\ Len(ticks[k]) <= TestCount(k[2])
         /\ ticks[k] = ExpectedTicks(k[2], Len(ticks[k]))
    /\ Delivered =>
         /\ Len(ticks[lastFinal.key]) =
              (IF lastFinal.status = COMPILATION_ERROR THEN 0
               ELSE Len(lastFinal.tcs))
         /\ (~stop_requested /\ solutions[lastFinal.key] = "cpp"
               /\ lastFinal.status # COMPILATION_ERROR)
            => Len(ticks[lastFinal.key]) = TestCount(lastFinal.key[2])

\* C1, amended: with a tick callback registered, the ticks of a submission are
\* (1, N), (2, N), .. (k, N) in this order, one per test case that was run, all
\* emitted before its final result is delivered and none after; k = N when the
\* solution compiled and no stop was requested, k < N is possible when the
\* run was stopped, and a failed compilation emits no tick.
C1_TicksInOrderBeforeFinal ==
    /\ []C1_TicksState
    /\ [][\A k \in Keys : finals[k] >= 1 => ticks'[k] = ticks[k]]_vars

\* C1 witness: a final result delivered after all N >= 2 ticks of its submission
C1_Witness ==
    /\ Delivered
    /\ ~stop_requested
    /\ TestCount(lastFinal.key[2]) >= 2
    /\ Len(ticks[lastFinal.key]) = TestCount(lastFinal.key[2])

\* C7 as stated: once Evaluator.stop has returned, every child process that is
\* running has received a kill from it (no child is left running).
C7_InFlightChildrenKilled ==
    stopPc["host"] = "returned"
    => \A pid \in Pids : procState[pid] = "running" => pid \in cancelKilled

\* the sum of the weights of the test cases of p that tcs marks CORRECT
CorrectWeight(p, tcs) ==
    SumSeq([i \in 1..Len(tcs) |->
               IF tcs[i] = CORRECT THEN TestWeight(p, i) ELSE 0])

\* C9 as stated: a delivered result with test-case results has
\* score <= max_score, max_score = the sum of the problem's weights, and
\* score = the sum of the weights of its CORRECT test cases.
C9_WeightedScore ==
    (Delivered /\ lastFinal.tcs # <<>> /\ lastFinal.status # COMPILATION_ERROR)
    => /\ lastFinal.score <= lastFinal.max_score
       /\ lastFinal.max_score = SumSeq(ProblemWeights(lastFinal.key[2]))
       /\ lastFinal.score = CorrectWeight(lastFinal.key[2], lastFinal.tcs)

\* rank of a status in the priority list of the status reduction (spec 4.7)
ReductionRank(st) ==
    CASE st = COMPILATION_ERROR -> 1
      [] st = RUNTIME_ERROR -> 2
      [] st = TIME_LIMIT_EXCEEDED -> 3
      [] st = MEMORY_LIMIT_EXCEEDED -> 4
      [] st = WRONG_ANSWER -> 5
      [] OTHER -> 6

\* the reduction of a non-empty list of test-case statuses
Reduction(tcs) ==
    LET present == {tcs[i] : i \in 1..Len(tcs)}
        ranked == {st \in present : ReductionRank(st) <= 5}
    IN IF present = {CORRECT} THEN CORRECT
       ELSE IF ranked = {} THEN WRONG_ANSWER
       ELSE CHOOSE st \in ranked :
                \A o \in ranked : ReductionRank(st) <= ReductionRank(o)

\* C10: the status calculate_score sets is the reduction of the test-case
\* statuses: CORRECT if all are CORRECT, else the first status of the priority
\* list that some test case has, else WRONG_ANSWER; an empty list gives PENDING
\* with score 0 and max_score 0.
C10_StatusReduction ==
    scoreOut # NoScore
    => IF scoreIn = <<>>
       THEN scoreOut = [status |-> PENDING, score |-> 0, max_score |-> 0]
       ELSE scoreOut.status = Reduction(scoreIn)

\* C10 witness: a list with a TIME_LIMIT_EXCEEDED before a RUNTIME_ERROR,
\* reduced to RUNTIME_ERROR
C10_Witness ==
    /\ scoreOut # NoScore
    /\ Len(scoreIn) >= 2
    /\ scoreIn[1] = TIME_LIMIT_EXCEEDED
    /\ scoreIn[2] = RUNTIME_ERROR
    /\ scoreOut.status = RUNTIME_ERROR

\* C2 as stated: a parallel evaluate_all that nobody cancelled returns a map
\* with exactly the C*P keys of the run, each delivered to the callback once.
C2_AllResultsDelivered ==
    (parPc = "done" /\ stopPc["host"] = "idle")
    => /\ resultKeys = RunKeys
       /\ \A k \in RunKeys : finals[k] = 1

\* C5 as stated: once a cancel (Evaluator.stop, ParallelEvaluator.stop) has
\* returned, no worker begins a further test case, and none starts a child
\* process for a further (contestant, problem) task.
C5_NothingBeginsAfterCancel == ~lateTests /\ ~lateCompiles

\* the run can take no further step: every thread has ended or waits for ever
RunStopped == ~ENABLED NextPool

\* C3 as stated: evaluation_finished is emitted exactly once per run of
\* EvaluationThread (never twice, and once when the run has come to rest), and
\* no final result is emitted after it.
C3_FinishedExactlyOnce ==
    /\ finished <= 1
    /\ ~finalAfterFinished
    /\ RunStopped => finished = 1

\* C4 as stated, its first half: the observer is given (and handles) the
\* final result of a submission at most once per run.
C4_FinalHandledAtMostOnce == \A k \in Keys : finalHandled[k] <= 1

\* C6 as stated: stop_all has returned and every worker has observed its stop
\* flag and ended; then the task queue has no unfinished item left, so that
\* the wait_completion the evaluation thread is in returns.
C6_WaitReturnsAfterStopAll ==
    (use_threads /\ hostPc = "returned" /\ etPc = "wait"
        /\ \A t \in PoolWorkers : pc[t] = "exit")
    => unfinished_tasks = 0

\* C8 as stated: after the cancellation every worker that has ended has the
\* status "Terminated", and get_thread_status publishes that status for it.
C8_TerminatedPublished ==
    (use_threads /\ hostPc = "returned" /\ PoolWorkers # {}
        /\ \A t \in PoolWorkers : pc[t] = "exit")
    => \A t \in PoolWorkers :
           /\ status[t] = <<"Terminated">>
           /\ ThreadIndex(t) \in DOMAIN GetThreadStatus
           /\ GetThreadStatus[ThreadIndex(t)] = <<"Terminated">>

\* the timeout indication of a finished run: the sentinel ProcessManager hands
\* to TestRunner (return code -1 and elapsed >= time_limit), the expired wait
\* in Evaluator._run_test_case
RunTimedOut ==
    IF runCfg.path = "runner"
    THEN runRet.returncode = -1 /\ runRet.elapsed >= TimeLimit
    ELSE runRet.timedOut

\* C11: a finished run is classified in strict priority order: timeout gives
\* TIME_LIMIT_EXCEEDED; else peak memory above the limit gives
\* MEMORY_LIMIT_EXCEEDED; else a non-zero exit code gives RUNTIME_ERROR with
\* stderr as message; else CORRECT or WRONG_ANSWER by the output comparison.
C11_ClassificationPriority ==
    runPc = "done" =>
        IF RunTimedOut THEN runResult.status = TIME_LIMIT_EXCEEDED
        ELSE IF runRet.max_memory > MemoryLimit
        THEN runResult.status = MEMORY_LIMIT_EXCEEDED
        ELSE IF runRet.returncode # 0
        THEN /\ runResult.status = RUNTIME_ERROR
             /\ runResult.error_message = "stderr"
        ELSE runResult.status = (IF runCfg.outputOk THEN CORRECT ELSE WRONG_ANSWER)

\* C11 witness: a child that exceeded the memory limit and exited non-zero,
\* reported MEMORY_LIMIT_EXCEEDED
C11_Witness ==
    /\ runPc = "done"
    /\ ~RunTimedOut
    /\ runRet.max_memory > MemoryLimit
    /\ runRet.returncode # 0
    /\ runResult.status = MEMORY_LIMIT_EXCEEDED

ChildStarted(k) == \E pid \in Pids : pid[1] = k /\ procState[pid] # "unborn"

\* C13: when the compilation of a C/C++ solution fails, the result that
\* evaluate_submission returns, and that is delivered, holds exactly one
\* test-case result, of status COMPILATION_ERROR, has the overall status
\* COMPILATION_ERROR, and no test case is run for the submission: no child
\* process is started and no tick is emitted.
C13_CompilationErrorResult ==
    \A k \in Keys :
        compile_result[k] = "error" =>
            /\ ~ChildStarted(k)
            /\ ticks[k] = <<>>
            /\ \A t \in Threads :
                   (task[t] = k /\ pc[t] = "es_ret") =>
                       /\ ret[t].status = COMPILATION_ERROR
                       /\ ret[t].tcs = <<COMPILATION_ERROR>>
            /\ lastFinal.key = k =>
                   /\ lastFinal.status = COMPILATION_ERROR
                   /\ lastFinal.tcs = <<COMPILATION_ERROR>>

\* C13 witness: the result of a submission whose compilation failed has been
\* delivered
C13_Witness ==
    /\ Delivered
    /\ compile_result[lastFinal.key] = "error"
    /\ lastFinal.tcs = <<COMPILATION_ERROR>>
    /\ finals[lastFinal.key] = 1

\* the submission needs no evaluation: the contestant has no solution for the
\* problem, or the problem has no test cases once loaded
NothingToEvaluate(k) ==
    \/ solutions[k] = "none"
    \/ solutions[k] = "cpp" /\ TestCount(k[2]) = 0

\* C14: evaluate_submission returns a PENDING result with an empty test-case
\* list, without compiling or running anything, when the contestant has no
\* solution for the problem, and also when the problem has no test cases after
\* loading.
C14_PendingWithoutWork ==
    \A t \in Threads :
        (pc[t] = "es_ret" /\ NothingToEvaluate(task[t])) =>
            /\ ret[t].status = PENDING
            /\ ret[t].tcs = <<>>
            /\ compile_result[task[t]] = "none"
            /\ ~ChildStarted(task[t])
            /\ ticks[task[t]] = <<>>

\* C14 witness: the PENDING result of a C++ solution for a problem without
\* test cases has been delivered, nothing compiled
C14_Witness ==
    /\ Delivered
    /\ solutions[lastFinal.key] = "cpp"
    /\ TestCount(lastFinal.key[2]) = 0
    /\ lastFinal.status = PENDING
    /\ lastFinal.tcs = <<>>
    /\ compile_result[lastFinal.key] = "none"

\* C15: over any sequence of submissions processed for the same unchanged
\* source path, the toolchain is not invoked again after the first successful
\* compilation of the path.
C15_ToolchainOnceAfterSuccess == recompiled = {}

\* C16: a failed compilation is never cached: a path whose last compilation
\* failed has no entry in the cache, an entry is there only after a success,
\* and a submission that follows a failed compilation of its path has invoked
\* the toolchain again when it returns.
C16_FailureNotCached ==
    /\ \A p \in Paths :
          /\ lastCompile[p] = "error" => p \notin compilation_cache
          /\ p \in compilation_cache => lastCompile[p] = "ok"
    /\ (cpPc = "returned" /\ cpSub.afterFailure)
          => toolchain[cpSub.path] = cpSub.before + 1

\* C16 witness: Processor.process_submission has returned for a path whose
\* compilation had failed before: the toolchain ran again, failed again, and
\* the cache has no entry for the path
C16_Witness ==
    /\ cpPc = "returned"
    /\ cpSub.via = "processor"
    /\ cpSub.afterFailure
    /\ toolchain[cpSub.path] = 2
    /\ lastCompile[cpSub.path] = "error"
    /\ cpSub.path \notin compilation_cache

\* the partial result that follows test case i of problem p: its max_score is
\* the sum of the weights of the first i test cases
PrefixMaxScore(p, i) == SumSeq(SubSeq(ProblemWeights(p), 1, i))

\* C17: after each test case k of a submission a partial result is emitted,
\* after tick k, before tick k + 1 and before the final result, with a
\* max_score that is the sum of the weights of the first k test cases.
C17_PartialAfterEachTestCase ==
    \A k \in Keys :
        /\ Len(partials[k]) <= Len(ticks[k])
        /\ Len(partials[k]) >= Len(ticks[k]) - 1
        /\ finals[k] > 0 => Len(partials[k]) = Len(ticks[k])
        /\ \A i \in 1..Len(partials[k]) :
               partials[k][i].max_score = PrefixMaxScore(k[2], i)

\* C18: an exception raised while a pool worker executes a task is caught
\* inside the worker, which is Idle again and in its loop, and a result has
\* been reported for the (contestant, problem) of the task.  Stated for runs
\* in which no cancel has been requested.
C18_FailedResultReported ==
    \A t \in Threads :
        (/\ role[t] = "pool"
         /\ pc[t] = "w_loop"
         /\ status[t] = <<"Idle">>
         /\ task[t] # NoKey
         /\ solutions[task[t]] = "missing"
         /\ hostPc = "idle"
         /\ ~stop_flag[t]
         /\ ~et_stop_requested)
        => finals[task[t]] >= 1

\* the workers ParallelEvaluator.evaluate_all of app/core/parallel.py started
ParWorkers == {t \in Threads : role[t] = "par"}

\* the (0-based) index of contestant c in the input list
ContestantIndex(c) == (CHOOSE i \in 1..Len(contestants) : contestants[i] = c) - 1

\* worker t is inside evaluate_submission
Evaluating(t) ==
    pc[t] \in {"es_start", "tc_check", "tc_spawn", "tc_register", "tc_wait",
               "es_score", "es_ret"}

\* the tasks worker t still has to start or has started last
TasksOf(t) ==
    {todo[t][j] : j \in 1..Len(todo[t])}
        \cup (IF task[t] = NoKey THEN {} ELSE {task[t]})

ExpectedOrder(t) ==
    LET n == MinOf(num_threads, Len(contestants))
        own == {i \in 1..Len(contestants) : (i - 1) % n = ThreadIndex(t)}
        P == Len(problems)
        \* the j-th smallest index of own (1-based)
        Nth(j) == CHOOSE i \in own : Cardinality({h \in own : h < i}) = j - 1
    IN [j \in 1..(Cardinality(own) * P) |->
           <<contestants[Nth(((j - 1) \div P) + 1)], problems[((j - 1) % P) + 1]>>]

C21_WorkerStatusStrings ==
    \A t \in ParWorkers :
        thread_status[t] # <<"none">> =>
            IF Evaluating(t)
            THEN thread_status[t] = <<"Evaluating", task[t][1], task[t][2]>>
            ELSE thread_status[t] \in {<<"Idle">>, <<"Stopped">>, <<"Terminated">>}


\* the gate as stated: adaptive sources pass; of the others, a source with a
\* detected file-I/O method fails in standard mode, a source without one
\* fails in file mode
StatedCompatible(io, io_mode) ==
    \/ io.adaptive
    \/ ~ \/ io_mode = "standard" /\ io.methods # {}
         \/ io_mode = "file" /\ io.methods = {}

\* C22: the I/O compatibility gate of TestRunner.run_test_case lets an
\* adaptive source pass in every io_mode, rejects with RUNTIME_ERROR a
\* non-adaptive source with a detected file-I/O method in standard mode and a
\* non-adaptive source without one in file mode, lets every other combination
\* pass, and a rejected test case starts no child process.
C22_IoCompatibilityGate ==
    /\ stPc \in {"read", "stage", "run", "recover"} =>
           StatedCompatible(stCfg.io, stCfg.io_mode)
    /\ (stPc = "done" /\ stResult.error = "incompatible") =>
           /\ ~StatedCompatible(stCfg.io, stCfg.io_mode)
           /\ stResult.status = RUNTIME_ERROR
           /\ ~stChild

\* the routing as stated, from (adaptive, io_mode, file I/O detected,
\* freopen_stdin among the methods): the input file is written or not, what
\* is fed on stdin, stdin a pipe or detached
StatedRoute(io, io_mode) ==
    IF io.adaptive
    THEN [file |-> TRUE, input_data |-> "data", use_stdin_pipe |-> TRUE]
    ELSE IF io_mode = "standard"
    THEN [file |-> FALSE, input_data |-> "data", use_stdin_pipe |-> TRUE]
    ELSE IF io_mode = "file" \/ (io_mode = "auto" /\ UsesFileIo(io))
    THEN IF "freopen_stdin" \in io.methods
         THEN [file |-> TRUE, input_data |-> "", use_stdin_pipe |-> TRUE]
         ELSE [file |-> TRUE, input_data |-> None, use_stdin_pipe |-> FALSE]
    ELSE [file |-> FALSE, input_data |-> "data", use_stdin_pipe |-> TRUE]

\* C23: the staging of TestRunner.run_test_case routes the input as a function
\* of (adaptive, io_mode, file I/O detected, freopen_stdin among the methods):
\* adaptive, the input file is written and the input also fed on stdin;
\* else standard, stdin pipe only and no file; else file, or auto with file
\* I/O detected, the input file is written and stdin is an empty pipe with
\* freopen_stdin and detached without; else the input is fed on a stdin pipe.
C23_StdinRouting ==
    /\ stPc = "run" =>
           LET r == StatedRoute(stCfg.io, stCfg.io_mode)
           IN /\ ("in" \in stFiles) = r.file
              /\ stRoute.input_data = r.input_data
              /\ stRoute.use_stdin_pipe = r.use_stdin_pipe
    /\ stPc = "done" => stResult.error # "TypeError"

\* C24: for an adaptive source both staged files, the input file and the
\* output file in the solution directory, are registered for cleanup: once
\* run_test_case has returned from a run it staged, whatever the outcome,
\* neither file exists in the solution directory.
C24_StagedFilesRemoved ==
    (stPc = "done" /\ stCfg.io.adaptive /\ stRoute.temp_files # {}) =>
        /\ "in" \notin stFiles
        /\ stRoute.output_file # None => "out" \notin stFiles

\* run_test_case has returned the result of the comparison
Recovered == stPc = "done" /\ stResult.status \in {CORRECT, WRONG_ANSWER}

\* the staged output file exists when the output is recovered
OutputFileThere == stRoute.output_file # None /\ "out" \in stFiles

\* the outputs the statement allows, emptiness and length taken of the raw
\* contents
StatedOutputs(stdout, fileThere, fileText, adaptive) ==
    LET file == IF fileThere THEN fileText ELSE <<>>
    IN IF ~adaptive
       THEN {IF file # <<>> THEN file ELSE stdout}
       ELSE IF file # <<>> /\ stdout # <<>>
       THEN {t \in {file, stdout} : Len(t) >= Len(file) /\ Len(t) >= Len(stdout)}
       ELSE {IF file # <<>> THEN file ELSE stdout}

Breaks(t) == {i \in 1..Len(t) : t[i] = "\n"}

NumLines(t) == Cardinality(Breaks(t)) + 1

BreakAt(t, k) ==
    CHOOSE i \in Breaks(t) : Cardinality({j \in Breaks(t) : j < i}) = k - 1

LineAt(t, k) ==
    SubSeq(t, IF k = 1 THEN 1 ELSE BreakAt(t, k - 1) + 1,
              IF k = NumLines(t) THEN Len(t) ELSE BreakAt(t, k) - 1)

\* two texts trimmed by Trim have the same number of lines and each pair of
\* corresponding lines is equal after stripping
SameLines(Trim(_), actual, expected) ==
    LET a == Trim(actual)
        e == Trim(expected)
    IN /\ NumLines(a) = NumLines(e)
       /\ \A k \in 1..NumLines(a) : Strip(LineAt(a, k)) = Strip(LineAt(e, k))

\* the comparison is reflexive and symmetric and the two functions agree
CompareRelation ==
    /\ cmpRunner.self /\ cmpEvaluator.self
    /\ cmpRunner.swapped = cmpRunner.direct
    /\ cmpEvaluator.swapped = cmpEvaluator.direct
    /\ cmpEvaluator.direct = cmpRunner.direct

\* C26 as stated: the comparison returns equal if and only if, after trimming
\* the trailing whitespace of the whole text, actual and expected have the
\* same number of lines and every pair of corresponding lines is equal after
\* stripping; it is reflexive and symmetric and both functions agree.
C26_CompareTrailingTrim ==
    cmpPc = "done" =>
        /\ cmpRunner.direct = SameLines(StripTrailing, cmpActual, cmpExpected)
        /\ CompareRelation

\* C26: the comparison returns equal if and only if, after trimming the
\* leading and the trailing whitespace of the whole text, actual and expected
\* have the same number of lines and every pair of corresponding lines is
\* equal after stripping; the relation is reflexive and symmetric, and
\* Evaluator._compare_output and TestRunner._compare_output agree on every
\* pair of inputs.
C26_CompareOutput ==
    cmpPc = "done" =>
        /\ cmpRunner.direct = SameLines(Strip, cmpActual, cmpExpected)
        /\ CompareRelation

\* two different texts of two lines each that compare equal
C26_Witness ==
    /\ cmpPc = "done"
    /\ cmpRunner.direct
    /\ cmpEvaluator.direct
    /\ cmpActual # cmpExpected
    /\ NumLines(Strip(cmpActual)) = 2

\* evaluate_submission of thread t has gone through its test-case loop
\* without a stop request and is about to return
LoopCompleted(t) ==
    /\ pc[t] = "es_ret"
    /\ ~stop_requested
    /\ compile_result[task[t]] = "ok"

\* C27: _run_test_case never raises: a failure to read the input or the
\* expected-output file yields a RUNTIME_ERROR test-case result that carries
\* the message of the exception with zero time and memory; the submission is
\* not aborted, the remaining test cases are run, and the result list has
\* one entry per test case.
C27_ReadFailureIsAResult ==
    /\ \A c \in caught :
           /\ c.result.status = RUNTIME_ERROR
           /\ c.result.error_message = "OSError"
           /\ c.result.execution_time = 0
           /\ c.result.memory_used = 0
    /\ \A t \in Threads :
           LoopCompleted(t) =>
               /\ Len(ret[t].tcs) = TestCount(task[t][2])
               /\ \A i \in 1..TestCount(task[t][2]) :
                      IF i \in unreadable
                      THEN /\ ret[t].tcs[i] = RUNTIME_ERROR
                           /\ \E c \in caught : c.key = task[t] /\ c.test = i
                           /\ procState[<<task[t], i>>] = "unborn"
                      ELSE procState[<<task[t], i>>] = "reaped"

\* the files of the first of two test cases could not be read, the second
\* test case ran and was judged correct
C27_Witness ==
    /\ LoopCompleted("w1")
    /\ unreadable = {1}
    /\ ret["w1"].tcs = <<RUNTIME_ERROR, CORRECT>>
    /\ \E c \in caught : c.key = task["w1"] /\ c.test = 1

\* C28: in Evaluator._run_test_case an input larger than 1 MiB is spilled to
\* a temporary file that is the child's stdin (a smaller one goes through a
\* pipe and has no spill file), and the spill file is removed on every exit
\* path of the run: normal completion, timeout, spawn failure, any exception.
C28_SpillFileRemoved ==
    gdCfg.path = "evaluator" =>
        /\ gdCfg.input_size <= SpillLimit => gdSpill = "none"
        /\ gdStdin # "none" =>
               gdStdin = IF gdCfg.input_size > SpillLimit THEN "file" ELSE "pipe"
        /\ gdPc = "done" => gdSpill # "exists"

\* C29: on every exit path of a run that spawned its child (normal
\* completion, timeout, any exception raised after the spawn) the memory
\* sampler has been signaled to stop and the watchdog timer cancelled: no
\* sampler or watchdog of a finished run remains active.
C29_HelpersStopped ==
    (gdPc = "done" /\ gdChild # "unborn") =>
        /\ gdSampler # "running"
        /\ kill_timer # "armed"

\* C30: a watchdog timer is armed at 1.2 x time_limit for every child, and a
\* run whose child the watchdog killed is classified TIME_LIMIT_EXCEEDED
\* whenever the elapsed time is at least time_limit.
C30_WatchdogArmed ==
    /\ gdPc = "wait" => kill_timer \in {"armed", "fired"}
    /\ kill_timer = "fired" => gdNow >= WatchdogAt
    /\ (gdPc = "done" /\ gdChild = "killed by watchdog" /\ gdNow >= LimitAt) =>
           gdOutcome.status = TIME_LIMIT_EXCEEDED

\* C31: get_problem_settings(p) returns the per-problem override when one
\* exists for p, and otherwise a value whose time_limit, memory_limit and
\* io_mode equal the current global values; resolving never adds an override.
C31_SettingsResolution ==
    answer.problem # "none" =>
        /\ IF answer.before[answer.problem] # NoOverride
           THEN answer.value = answer.before[answer.problem]
           ELSE /\ answer.value.time_limit = global_settings.time_limit
                /\ answer.value.memory_limit = global_settings.memory_limit
                /\ answer.value.io_mode = global_settings.io_mode
        /\ problem_settings = answer.before

\* an override that differs from the globals was returned for one problem
\* while the other problem has none
C31_Witness ==
    /\ answer.problem = "p1"
    /\ problem_settings["p1"] # NoOverride
    /\ problem_settings["p2"] = NoOverride
    /\ answer.value = problem_settings["p1"]
    /\ answer.value.time_limit # global_settings.time_limit

\* C32: every result of detect_file_io satisfies adaptive => conditional_io,
\* and for a source that is not C/C++ the result is empty: no input, no
\* output, no methods, both flags false.
C32_DetectionInvariant ==
    detPc = "done" =>
        /\ detOut.adaptive => detOut.conditional_io
        /\ detSrc.ext # "cpp" =>
               /\ detOut.input = <<None>>
               /\ detOut.output = <<None>>
               /\ detOut.methods = {}
               /\ ~detOut.adaptive
               /\ ~detOut.conditional_io

\* a C++ source with docfile() and a freopen was found adaptive
C32_Witness ==
    /\ detPc = "done"
    /\ detSrc.ext = "cpp"
    /\ detSrc.docfile
    /\ ~detSrc.conditional
    /\ detSrc.freopen_in = "lit"
    /\ detOut.adaptive
    /\ detOut.conditional_io

\* only methods that read were detected
OnlyInputMethods(f) ==
    /\ f.ofstream = "none"
    /\ f.freopen_out = "none"
    /\ f.fopen \in {"none", "r_lit", "r_var"}

\* C33: when a file-I/O method was observed but no name extracted, the
\* default names are NAME.INP/NAME.OUT with a NAME macro, else
\* <problem_id>.INP/<problem_id>.OUT, else input.txt/output.txt; and when
\* only input methods were detected (ifstream only, fopen only for reading)
\* no output file name is fabricated.
C33_DefaultFileNames ==
    (detPc = "done" /\ detSrc.ext = "cpp") =>
        LET ex == ExtractedNames(detSrc)
            f == detSrc
        IN /\ (ex.input = None
               /\ (f.ifstream # "none" \/ f.freopen_in # "none"
                   \/ f.fopen # "none"))
                  => detOut.input = DefaultName(f, "INP", "input.txt")
           /\ (ex.output = None /\ ~OnlyInputMethods(f))
                  => detOut.output = DefaultName(f, "OUT", "output.txt")
           /\ OnlyInputMethods(f) => detOut.output = <<None>>

\* C34: a stop request affects only the run in progress: a later
\* evaluate_submission on the same Evaluator, begun after the earlier run has
\* ended (cancelled, or a parallel run that ran to completion) and with no
\* stop requested since, returns a result that holds every test case of
\* its problem when the solution compiles
C34_LaterRunComplete ==
    \A t \in Threads :
        role[t] = "rejudge" /\ pc[t] = "rj_done"
                /\ ret[t].status # COMPILATION_ERROR
            => Len(ret[t].tcs) = TestCount(task[t][2])


\* C35: the parallel evaluate_all always returns: under fair scheduling the
\* collecting loop terminates and evaluate_all reaches its return in every
\* behaviour, also when evaluate_submission raises inside a worker thread and
\* when two workers finish at the same time
C35_EvaluateAllReturns == <>(parPc = "done")


\* a worker of parallel.py that has not yet finished: its thread was started
\* and has neither completed its decrement nor ended with an exception
Unfinished(t) == role[t] = "par" /\ pc[t] \notin {"exit", "es_raised"}

\* C36: the active_threads counter is exact under concurrency: in every
\* state it equals the number of workers that have not yet finished, it is
\* never below 0, and it is 0 once all workers have finished, whatever the
\* interleaving of the workers' decrements
C36_ActiveThreadsExact ==
    /\ active_threads = Cardinality({t \in Threads : Unfinished(t)})
    /\ active_threads >= 0


\* C37: the registry of live children holds an entry for a solution path
\* only while a child for that path is running: whenever _run_test_case has
\* returned (normally, by timeout, or through its exception handler) the
\* registry has no entry for the path, and stop() never acts on a child that
\* has already been reaped
C37_RegistryOnlyWhileRunning ==
    /\ rgPc \in {"returned", "loop", "finished"} => rgEntry = NoEntry
    /\ \A a \in rgActed : a[2] # "reaped"


\* C38: a test case whose child was killed by cancellation is not recorded
\* as a failure of the contestant: a result returned by evaluate_submission
\* holds no test-case result of a child killed by Evaluator.stop (a
\* submission cancelled after k test cases completed has exactly k results),
\* and its score and max_score use the weights of the test cases it holds
C38_CancelKillNotRecorded ==
    \A t \in Threads :
        (pc[t] = "es_ret" /\ ret[t].status # COMPILATION_ERROR
            /\ ret[t].tcs # <<>>)
        => LET k == task[t]
               n == Len(ret[t].tcs)
           IN /\ \A i \in 1..n : <<k, i>> \notin cancelKilled
              /\ ret[t].max_score = SumSeq(SubSeq(ProblemWeights(k[2]), 1, n))
              /\ ret[t].score = CorrectWeight(k[2], ret[t].tcs)


\* C39: once a stop has been requested, no further final result is delivered
\* to the observer: no step taken while the stop flag of the evaluation
\* thread is set invokes the emissions of the result callback, under every
\* interleaving of the stop with the worker's check of the flag
C39_NoFinalAfterStop == [][et_stop_requested => finals' = finals]_vars


\* C40: the actual output attributed to a test case was produced by that
\* test case's own run: a pre-existing output file is deleted before the
\* child starts whenever an output file is to be read, so the recovered
\* output is never the content of a file left behind by an earlier run
C40_OwnOutputOnly ==
    /\ (stPc = "run" /\ stRoute.output_file # None) => "out" \notin stFiles
    /\ (stPc \in {"recover", "done"} /\ stRoute.output_file # None
            /\ "out" \in stFiles)
       => stOutText # StaleText
    /\ (stPc = "done" /\ stResult.status \in {CORRECT, WRONG_ANSWER})
       => stResult.actual_output # Strip(StaleText)

\* an output file was left behind in the solution directory, the run staged
\* an output file, the child exited without writing it, and the output was
\* recovered
C40_Witness ==
    /\ stPc = "done"
    /\ stCfg.stale
    /\ stRoute.output_file # None
    /\ "out" \notin stFiles
    /\ stResult.status \in {CORRECT, WRONG_ANSWER}

====
